---- MODULE Spec2Model ----
(***************************************************************************)
(* forbidden-bands: PETSCII <-> Unicode conversion over fixed-capacity     *)
(* byte buffers (src/src/petscii.rs) and the lazily loaded global table    *)
(* set petscii::CONFIG.                                                    *)
(*                                                                         *)
(* The specifications share the variables:                                 *)
(*   Spec        one caller building buffers and decoding them;            *)
(*   SpecIter    a caller walking buffers with their iterator;             *)
(*   SpecJoin    a caller joining the bytes of two encoded texts;          *)
(*   SpecConfig  a caller that also stores a table set in CONFIG;          *)
(*   SpecCalls   conversion calls one after another, step by step;         *)
(*   SpecLoad    several threads running PetsciiConfig::load() against     *)
(*               the RwLock around CONFIG;                                 *)
(*   SpecLoadFair  SpecLoad under a fair scheduler and lock;                *)
(*   SpecPar     threads making conversion calls in parallel;              *)
(*   SpecMix     load(), load_from_file(), a decode and an encode made by  *)
(*               different threads at once.                                *)
(***************************************************************************)
EXTENDS Integers, Sequences, FiniteSets, TLC

(***************************************************************************)
(* Bounds of the model.                                                    *)
(***************************************************************************)
\* capacity L of the buffers built from byte slices and arrays
L == 3
\* longest text handed to the string constructors
MaxTextLen == 3
\* longest second text of a concatenation
MaxSecondLen == 2
\* number of threads calling PetsciiConfig::load()
NumThreads == 3

\* calls of next() made on an iterator after it is exhausted
ExtraCalls == 2

\* number of threads making conversion calls in parallel
NumWorkers == 2
\* length of the buffers and texts of those calls
ParLen == 2

\* capacity of the buffers built from text
LStr == L + 2
\* longest byte slice handed to a constructor: one more than the capacity
MaxSrcLen == L + 1

(***************************************************************************)
(* serde_json values and maps.  A Value is a Number or an Array of         *)
(* numbers; a Map<String, Value> is a function from key strings.           *)
(***************************************************************************)
Number(n) == [kind |-> "Number", v |-> <<n>>]

Array(a, b) == [kind |-> "Array", v |-> <<a, b>>]

MapOf(pairs) == [k \in {p[1] : p \in pairs} |-> (CHOOSE p \in pairs : p[1] = k)[2]]

\* u8::to_string / u32::to_string: the decimal numeral, no sign, no padding
to_string(n) == ToString(n)

\* Map::get
get(map, key) ==
    IF key \in DOMAIN map
        THEN [some |-> TRUE, value |-> map[key]]
        ELSE [some |-> FALSE, value |-> Number(0)]

\* ScreenCodeValue::deserialize / PetsciiCodeValue::deserialize: a two-element
\* array of u8 becomes the struct's two fields, anything else is an Err
deserialize(value) ==
    IF /\ value.kind = "Array"
       /\ Len(value.v) = 2
       /\ \A i \in 1..2 : value.v[i] \in 0..255
        THEN [ok |-> TRUE, first |-> value.v[1], second |-> value.v[2]]
        ELSE [ok |-> FALSE, first |-> 0, second |-> 0]

\* char::from_u32: Some for a Unicode scalar value, None for a surrogate or a
\* value above 0x10FFFF
char_from_u32(d) == d \in 0..55295 \/ d \in 57344..1114111

(***************************************************************************)
(* Table sets.  The embedded map config_data::C64_PETSCII_MAP is given by  *)
(* the entries the crate's tests pin down: the letters, the four card      *)
(* suits in normal and reversed video, and PETSCII 167 whose screen code   *)
(* 103 has no Unicode entry.                                               *)
(***************************************************************************)
C64_PETSCII_MAP ==
    [ version |-> "0.2.0",
      c64_petscii_unshifted_codes_to_screen_codes |->
          MapOf({<<to_string(c), Array(1, c - 64)>> : c \in 65..90}
                \cup {<<to_string(c), Array(1, c - 32)>> : c \in {97, 115, 120, 122}}
                \cup {<<to_string(167), Array(1, 103)>>}),
      c64_petscii_shifted_codes_to_screen_codes |->
          MapOf({<<to_string(c), Array(2, c - 64)>> : c \in 65..90}),
      c64_screen_codes_set_1_to_unicode_codes |->
          MapOf({<<to_string(k), Number(64 + k)>> : k \in 1..26}
                \cup {<<to_string(65), Number(9824)>>, <<to_string(83), Number(9829)>>,
                      <<to_string(88), Number(9827)>>, <<to_string(90), Number(9830)>>,
                      <<to_string(193), Number(9828)>>, <<to_string(211), Number(9825)>>,
                      <<to_string(216), Number(9831)>>, <<to_string(218), Number(9826)>>}),
      c64_screen_codes_set_2_to_unicode_codes |->
          MapOf({<<to_string(k), Number(96 + k)>> : k \in 1..26}),
      c64_screen_codes_set_3_to_unicode_codes |->
          MapOf({<<to_string(k), Number(k)>> : k \in {10, 13}}),
      unicode_codes_to_c64_screen_codes |->
          MapOf({<<to_string(u), Array(1, u - 64)>> : u \in 65..90}
                \cup {<<to_string(u), Array(2, u - 96)>> : u \in 97..122}),
      c64_screen_codes_set_1_to_petscii_codes |->
          MapOf({<<to_string(k), Array(0, 64 + k)>> : k \in 1..26}),
      c64_screen_codes_set_2_to_petscii_codes |->
          MapOf({<<to_string(k), Array(1, 64 + k)>> : k \in 1..26}),
      c64_screen_codes_set_3_to_petscii_codes |->
          MapOf({<<to_string(k), Array(0, k)>> : k \in {10, 13}}) ]

\* A PetsciiConfig a caller supplies itself (the struct's fields are public,
\* load_from_file reads any file), a sparse one.  Unshifted: 'A' is mapped,
\* 97 leads to screen code 103 which has no Unicode entry, 126 and 160 are
\* mapped, 66 is not.  Shifted: 'A' is mapped, 97 and 160 are not, and two
\* entries are corrupt: 126 has a screen code above 127, 0 has screen set 4.
\* The unshifted table also has entries under the control codes 14 and 146.
\* From Unicode: 'A' is mapped, 'Z' has a screen code without PETSCII entry,
\* 'a' has screen set 4 and the entry of 'z' is a number, not a pair.
CallerConfig ==
    [ version |-> "0.2.0",
      c64_petscii_unshifted_codes_to_screen_codes |->
          MapOf({<<to_string(65), Array(1, 1)>>, <<to_string(97), Array(1, 103)>>,
                 <<to_string(126), Array(1, 94)>>, <<to_string(160), Array(1, 96)>>,
                 <<to_string(0), Array(1, 32)>>,
                 <<to_string(14), Array(1, 1)>>, <<to_string(146), Array(1, 1)>>}),
      c64_petscii_shifted_codes_to_screen_codes |->
          MapOf({<<to_string(65), Array(2, 1)>>, <<to_string(126), Array(1, 200)>>,
                 <<to_string(0), Array(4, 1)>>}),
      c64_screen_codes_set_1_to_unicode_codes |->
          MapOf({<<to_string(1), Number(65)>>, <<to_string(32), Number(32)>>,
                 <<to_string(94), Number(960)>>, <<to_string(96), Number(160)>>}),
      c64_screen_codes_set_2_to_unicode_codes |->
          MapOf({<<to_string(1), Number(97)>>}),
      c64_screen_codes_set_3_to_unicode_codes |-> MapOf({}),
      unicode_codes_to_c64_screen_codes |->
          MapOf({<<to_string(65), Array(1, 1)>>, <<to_string(90), Array(1, 26)>>,
                 <<to_string(97), Array(4, 1)>>, <<to_string(122), Number(5)>>}),
      c64_screen_codes_set_1_to_petscii_codes |->
          MapOf({<<to_string(1), Array(0, 65)>>}),
      c64_screen_codes_set_2_to_petscii_codes |-> MapOf({}),
      c64_screen_codes_set_3_to_petscii_codes |-> MapOf({}) ]

\* &SystemConfig references a buffer can carry
SystemConfigs == {"embedded", "caller"}

\* SystemConfig.character_set_map
character_set_map(cm) == IF cm = "embedded" THEN C64_PETSCII_MAP ELSE CallerConfig

(***************************************************************************)
(* Inputs.                                                                 *)
(***************************************************************************)
\* bytes of the arrays given to new / new_with_config: the four control
\* codes, the pad 0xA0, 'A', 97 and its duplicate 193, the duplicate 224 of
\* 160 and the duplicate 255 of 126
ArrayBytes == {14, 18, 142, 146, 160, 65, 97, 193, 224, 255}

\* logical lengths given to new / new_with_config: empty, unfilled, full and
\* beyond the capacity
Lens == {0, L - 1, L, L + 1}

\* bytes of the slices given to the byte-slice constructors: the pad 0xA0 and
\* its duplicate 0xE0 among them
SliceBytes == {0, 14, 160, 224, 65, 66}

\* characters of the texts: A, Z, a, z and one without any table entry
TextChars == {65, 90, 97, 122, 8364}

\* characters of the second text of a concatenation
SecondChars == {65, 97, 8364}

SeqsUpTo(S, n) == UNION {[1..k -> S] : k \in 0..n}

VARIABLES
    CONFIG,     \* petscii::CONFIG: "None" or the table set held in Some
    src,        \* the last constructor call and its arguments
    ps,         \* what that call produced: a PetsciiString or a panic
    bytes,      \* the Vec<u8> unicode_to_petscii_bytes returned in that call
    decoded,    \* what String::from(&ps) produced, once it has run
    joined,     \* a second text encoded and appended to bytes, and the decodings
    iter,       \* what the calls of next() on ps.into_iter() returned, once made
    pc,         \* per thread: position inside PetsciiConfig::load()
    readers,    \* threads holding a read lock on CONFIG
    writer,     \* thread holding the write lock on CONFIG, 0 for none
    ret,        \* per thread: character_set_map of the Config load() returned
    writes,     \* number of assignments load() has made to CONFIG so far
    conv,       \* the conversion call in progress: its local state and last step
    work        \* per thread: the conversion call it makes and what it returned

vars ==
    <<CONFIG, src, ps, bytes, decoded, joined, iter, pc, readers, writer, ret, writes,
      conv, work>>

Threads == 1..NumThreads

(***************************************************************************)
(* PetsciiString<L> values and the outcome of a constructor call.          *)
(***************************************************************************)
PetsciiString(len, data, character_map, strip_shifted_space) ==
    [ outcome |-> "ok", msg |-> "",
      len |-> len, data |-> data,
      character_map |-> character_map,
      strip_shifted_space |-> strip_shifted_space ]

Panicked(msg) ==
    [ outcome |-> "panic", msg |-> msg,
      len |-> 0, data |-> <<>>,
      character_map |-> "None",
      strip_shifted_space |-> FALSE ]

\* let mut bytes: [u8; L] = [0; L];  bytes[..b.len()].copy_from_slice(b)
ZeroFilled(cap, b) == [i \in 1..cap |-> IF i <= Len(b) THEN b[i] ELSE 0]

(***************************************************************************)
(* IntoIter::next.  index counts the bytes handed out so far; the array    *)
(* access data[index - 1] is bounds-checked against the capacity.          *)
(***************************************************************************)
next(it) ==
    IF it.index < it.data.len
        THEN IF it.index < Len(it.data.data)
                 THEN [ some |-> TRUE, panic |-> FALSE,
                        item |-> it.data.data[it.index + 1], index |-> it.index + 1 ]
                 ELSE [ some |-> FALSE, panic |-> TRUE, item |-> 0, index |-> it.index + 1 ]
        ELSE [ some |-> FALSE, panic |-> FALSE, item |-> 0, index |-> it.index ]

\* what successive calls of next() return: Some(b) is <<b>>, None is <<>>
Iterated(outcome, results) == [outcome |-> outcome, results |-> results]

\* n calls of next() on the iterator over s that stands at index
RECURSIVE drain(_, _, _, _)

drain_item(s, r, n, acc) ==
    IF r.panic
        THEN Iterated("panic", acc)
        ELSE drain(s, r.index, n - 1, Append(acc, IF r.some THEN <<r.item>> ELSE <<>>))

drain(s, index, n, acc) ==
    IF n = 0
        THEN Iterated("ok", acc)
        ELSE drain_item(s, next([index |-> index, data |-> s]), n, acc)

(***************************************************************************)
(* The decoder: impl From<&PetsciiString> for String.                      *)
(***************************************************************************)
\* what the filter_map closure does with one byte, and the conversion state
\* it leaves
Closure(kind, ch, shifted, attributes, msg) ==
    [kind |-> kind, ch |-> ch, shifted |-> shifted, attributes |-> attributes, msg |-> msg]

\* the closure as it would be without the match on the duplicated ranges
duplicate_none(c) == c

\* 192-223 duplicate 96-127, 224-254 duplicate 160-190, 255 duplicates 126
duplicate(c) ==
    IF c <= 191 THEN c
    ELSE IF c <= 223 THEN c - 96
    ELSE IF c <= 254 THEN c - 64
    ELSE 126

\* Map::get followed by deserialize, None when either fails
deserialized(found) ==
    IF found.some
        THEN deserialize(found.value)
        ELSE [ok |-> FALSE, first |-> 0, second |-> 0]

\* the table of the shift state
petscii_to_screen_codes(cm, shifted) ==
    IF ~shifted
        THEN character_set_map(cm).c64_petscii_unshifted_codes_to_screen_codes
        ELSE character_set_map(cm).c64_petscii_shifted_codes_to_screen_codes

\* the table of a screen code set 1, 2 or 3
screen_codes_to_unicode(cm, set) ==
    IF set = 1
        THEN character_set_map(cm).c64_screen_codes_set_1_to_unicode_codes
    ELSE IF set = 2
        THEN character_set_map(cm).c64_screen_codes_set_2_to_unicode_codes
    ELSE character_set_map(cm).c64_screen_codes_set_3_to_unicode_codes

\* the closure as it would be without the reverse video transform
screen_code_value_normal(screen_code, attributes) == screen_code.second

\* the reverse video transform of a screen code
screen_code_value(screen_code, attributes) ==
    IF "Reversed" \in attributes THEN screen_code.second + 128 ELSE screen_code.second

\* the character of the second table's entry hit, or of the normalised
\* code c when the table has no entry
unicode_char(c, shifted, attributes, hit) ==
    LET d == IF hit.some
                 THEN IF hit.value.kind = "Number" THEN hit.value.v[1] ELSE 0
                 ELSE c
    IN  IF hit.some /\ hit.value.kind = "Number" /\ hit.value.v[1] < 0
            THEN Closure("panic", 0, shifted, attributes, "called Option::unwrap() on a None value")
        ELSE IF ~char_from_u32(d)
            THEN Closure("panic", 0, shifted, attributes, "called Option::unwrap() on a None value")
        ELSE Closure("some", d, shifted, attributes, "")

\* the closure as it would be without its two panics
screen_code_to_char_unchecked(cm, c, shifted, attributes, screen_code) ==
    IF ~screen_code.ok
        THEN Closure("none", 0, shifted, attributes, "")
        ELSE unicode_char(c, shifted, attributes,
                          get(screen_codes_to_unicode(cm, screen_code.first),
                              to_string(screen_code_value(screen_code, attributes))))

\* from the first table's entry to the character
screen_code_to_char(cm, c, shifted, attributes, screen_code) ==
    IF ~screen_code.ok
        THEN Closure("none", 0, shifted, attributes, "")
    ELSE IF screen_code.second > 127
        THEN Closure("panic", 0, shifted, attributes,
                     "Should not have a screen code greater than 127 before applying reverse video transform")
    ELSE IF screen_code.first \notin {1, 2, 3}
        THEN Closure("panic", 0, shifted, attributes, "Invalid screen code set")
    ELSE unicode_char(c, shifted, attributes,
                      get(screen_codes_to_unicode(cm, screen_code.first),
                          to_string(screen_code_value(screen_code, attributes))))

\* lookup as it would be if the byte as read, not the normalised code, were
\* the character of a screen code without Unicode entry
lookup_original_fallback(cm, c0, shifted, attributes) ==
    screen_code_to_char(cm, c0, shifted, attributes,
                        deserialized(get(petscii_to_screen_codes(cm, shifted),
                                         to_string(duplicate(c0)))))

\* the table lookups of the closure, for a byte that is no control code and
\* a buffer that carries the character map cm (table values stay below 2^31
\* here, where "as u32" changes nothing)
lookup(cm, c0, shifted, attributes) ==
    screen_code_to_char(cm, duplicate(c0), shifted, attributes,
                        deserialized(get(petscii_to_screen_codes(cm, shifted),
                                         to_string(duplicate(c0)))))

\* decode_byte as it would be with the character map tested before the
\* control codes: a buffer without map then emits them like any other byte
decode_byte_map_first(cm, c, shifted, attributes) ==
    IF cm = "None" THEN Closure("some", c, shifted, attributes, "")
    ELSE IF c = 14 THEN Closure("none", 0, TRUE, attributes, "")
    ELSE IF c = 18
        THEN Closure("none", 0, shifted, (attributes \ {"Normal"}) \cup {"Reversed"}, "")
    ELSE IF c = 142 THEN Closure("none", 0, FALSE, attributes, "")
    ELSE IF c = 146
        THEN Closure("none", 0, shifted, (attributes \ {"Reversed"}) \cup {"Normal"}, "")
    ELSE lookup(cm, c, shifted, attributes)

\* decode_byte as it would be with a 0x8E arm that forgets to clear shifted
decode_byte_no_shift_out(cm, c, shifted, attributes) ==
    IF c = 14 THEN Closure("none", 0, TRUE, attributes, "")
    ELSE IF c = 18
        THEN Closure("none", 0, shifted, (attributes \ {"Normal"}) \cup {"Reversed"}, "")
    ELSE IF c = 142 THEN Closure("none", 0, shifted, attributes, "")
    ELSE IF c = 146
        THEN Closure("none", 0, shifted, (attributes \ {"Reversed"}) \cup {"Normal"}, "")
    ELSE IF cm = "None" THEN Closure("some", c, shifted, attributes, "")
    ELSE lookup(cm, c, shifted, attributes)

\* decode_byte as it would be if 0x0E and 0x12 flipped the state they are
\* meant to set
decode_byte_toggling(cm, c, shifted, attributes) ==
    IF c = 14 THEN Closure("none", 0, ~shifted, attributes, "")
    ELSE IF c = 18
        THEN Closure("none", 0, shifted,
                     IF "Reversed" \in attributes THEN {"Normal"} ELSE {"Reversed"}, "")
    ELSE IF c = 142 THEN Closure("none", 0, FALSE, attributes, "")
    ELSE IF c = 146
        THEN Closure("none", 0, shifted, (attributes \ {"Reversed"}) \cup {"Normal"}, "")
    ELSE IF cm = "None" THEN Closure("some", c, shifted, attributes, "")
    ELSE lookup(cm, c, shifted, attributes)

\* decode_byte as it would be if 0x12 inserted Reversed without removing
\* Normal
decode_byte_reversed_inserted(cm, c, shifted, attributes) ==
    IF c = 14 THEN Closure("none", 0, TRUE, attributes, "")
    ELSE IF c = 18 THEN Closure("none", 0, shifted, attributes \cup {"Reversed"}, "")
    ELSE IF c = 142 THEN Closure("none", 0, FALSE, attributes, "")
    ELSE IF c = 146
        THEN Closure("none", 0, shifted, (attributes \ {"Reversed"}) \cup {"Normal"}, "")
    ELSE IF cm = "None" THEN Closure("some", c, shifted, attributes, "")
    ELSE lookup(cm, c, shifted, attributes)

\* the closure handed to filter_map
decode_byte(cm, c, shifted, attributes) ==
    IF c = 14 THEN Closure("none", 0, TRUE, attributes, "")
    ELSE IF c = 18
        THEN Closure("none", 0, shifted, (attributes \ {"Normal"}) \cup {"Reversed"}, "")
    ELSE IF c = 142 THEN Closure("none", 0, FALSE, attributes, "")
    ELSE IF c = 146
        THEN Closure("none", 0, shifted, (attributes \ {"Reversed"}) \cup {"Normal"}, "")
    ELSE IF cm = "None" THEN Closure("some", c, shifted, attributes, "")
    ELSE lookup(cm, c, shifted, attributes)

Decoded(outcome, chars, shifted, attributes, msg) ==
    [ outcome |-> outcome, chars |-> chars, shifted |-> shifted,
      attributes |-> attributes, msg |-> msg ]

\* .filter(|c| !s.strip_shifted_space || (*c != 0xA0)) and the closure of
\* filter_map on what passes
filtered(s, c, shifted, attributes) ==
    IF ~s.strip_shifted_space \/ c # 160
        THEN decode_byte(s.character_map, c, shifted, attributes)
        ELSE Closure("none", 0, shifted, attributes, "")

\* s.into_iter().filter(..).filter_map(..).collect(), from the iterator
\* position index on
RECURSIVE collect(_, _, _, _, _)

\* collect_closure as it would be if the String grew at its front
collect_closure_prepending(s, index, r, acc) ==
    IF r.kind = "panic"
        THEN Decoded("panic", <<>>, r.shifted, r.attributes, r.msg)
        ELSE collect(s, index, r.shifted, r.attributes,
                     IF r.kind = "some" THEN <<r.ch>> \o acc ELSE acc)

\* what the closure returned for one byte goes to the String
collect_closure(s, index, r, acc) ==
    IF r.kind = "panic"
        THEN Decoded("panic", <<>>, r.shifted, r.attributes, r.msg)
        ELSE collect(s, index, r.shifted, r.attributes,
                     IF r.kind = "some" THEN Append(acc, r.ch) ELSE acc)

\* what the iterator returned goes through filter and filter_map
collect_item(s, n, shifted, attributes, acc) ==
    IF n.panic
        THEN Decoded("panic", <<>>, shifted, attributes, "index out of bounds")
    ELSE IF ~n.some
        THEN Decoded("ok", acc, shifted, attributes, "")
    ELSE collect_closure(s, n.index, filtered(s, n.item, shifted, attributes), acc)

collect(s, index, shifted, attributes, acc) ==
    collect_item(s, next([index |-> index, data |-> s]), shifted, attributes, acc)

\* String::from(&ps)
StringFrom(s) == collect(s, 0, FALSE, {"Normal"}, <<>>)

(***************************************************************************)
(* The encoder: unicode_to_petscii_bytes.                                  *)
(***************************************************************************)
\* sc1_map, sc2_map, sc3_map
screen_codes_to_petscii(map, set) ==
    IF set = 1
        THEN map.c64_screen_codes_set_1_to_petscii_codes
    ELSE IF set = 2
        THEN map.c64_screen_codes_set_2_to_petscii_codes
    ELSE map.c64_screen_codes_set_3_to_petscii_codes

\* Some(petscii_code), or None when the entry is missing or no PetsciiCodeValue
some_petscii_code(petscii_code) ==
    IF ~petscii_code.ok
        THEN [some |-> FALSE, attributes |-> 0, value |-> 0]
        ELSE [some |-> TRUE, attributes |-> petscii_code.first, value |-> petscii_code.second]

\* from the screen code of a character to its PETSCII code
screen_code_to_petscii(map, screen_code) ==
    IF ~screen_code.ok
        THEN [some |-> FALSE, attributes |-> 0, value |-> 0]
    ELSE IF screen_code.first \notin {1, 2, 3}
        THEN [some |-> FALSE, attributes |-> 0, value |-> 0]
    ELSE some_petscii_code(
             deserialized(get(screen_codes_to_petscii(map, screen_code.first),
                              to_string(screen_code.second))))

\* the filter_map closure: the PetsciiCodeValue of one character, or None
encode_char(map, c) ==
    screen_code_to_petscii(
        map, deserialized(get(map.unicode_codes_to_c64_screen_codes, to_string(c))))

\* EnumSet::<PetsciiCharacterAttributes>::from_repr(attributes).contains(Shifted);
\* from_repr panics on a bit that is no variant, and Shifted is bit 0
from_repr_ok(attributes) == attributes \in {0, 1}

\* shift_codes as it would be without the assignments to shifted
shift_codes_no_state(petscii_code, shifted) ==
    IF petscii_code.attributes % 2 = 1
        THEN IF ~shifted
                 THEN [codes |-> <<14, petscii_code.value>>, shifted |-> shifted]
                 ELSE [codes |-> <<petscii_code.value>>, shifted |-> shifted]
        ELSE IF shifted
                 THEN [codes |-> <<142, petscii_code.value>>, shifted |-> shifted]
                 ELSE [codes |-> <<petscii_code.value>>, shifted |-> shifted]

\* shift_codes as it would be if every shifted character got its own 0x0E
shift_codes_always(petscii_code, shifted) ==
    IF petscii_code.attributes % 2 = 1
        THEN [codes |-> <<14, petscii_code.value>>, shifted |-> TRUE]
        ELSE IF shifted
                 THEN [codes |-> <<142, petscii_code.value>>, shifted |-> FALSE]
                 ELSE [codes |-> <<petscii_code.value>>, shifted |-> shifted]

\* the flat_map closure: the codes of one mapped character and the shift
\* state afterwards
shift_codes(petscii_code, shifted) ==
    IF petscii_code.attributes % 2 = 1
        THEN IF ~shifted
                 THEN [codes |-> <<14, petscii_code.value>>, shifted |-> TRUE]
                 ELSE [codes |-> <<petscii_code.value>>, shifted |-> shifted]
        ELSE IF shifted
                 THEN [codes |-> <<142, petscii_code.value>>, shifted |-> FALSE]
                 ELSE [codes |-> <<petscii_code.value>>, shifted |-> shifted]

Encoded(outcome, b, msg) == [outcome |-> outcome, bytes |-> b, msg |-> msg]

\* the shift out at the end as it would be if it were never written
trailing_shift_out_skipped(shifted, b) == b

\* the shift out at the end as it would be if it were written whatever the
\* shift state
trailing_shift_out_always(shifted, b) == Append(b, 142)

\* if shifted { bytes.push(0x8E); }
trailing_shift_out(shifted, b) == IF shifted THEN Append(b, 142) ELSE b

\* the iterator chain and the trailing shift out, from character i on
RECURSIVE encode_from(_, _, _, _, _)

\* the codes of one mapped character are collected
encode_codes(map, s, i, acc, out) ==
    encode_from(map, s, i + 1, out.shifted, acc \o out.codes)

\* the chain as it would be if a character without code ended it
encode_step_until_unmapped(map, s, i, shifted, acc, petscii_code) ==
    IF ~petscii_code.some
        THEN Encoded("ok", trailing_shift_out(shifted, acc), "")
    ELSE IF ~from_repr_ok(petscii_code.attributes)
        THEN Encoded("panic", <<>>, "EnumSet::from_repr: invalid bits")
    ELSE encode_codes(map, s, i, acc, shift_codes(petscii_code, shifted))

\* the chain as it would be if a character without code left the shifted
\* set
encode_step_unmapped_unshifts(map, s, i, shifted, acc, petscii_code) ==
    IF ~petscii_code.some
        THEN encode_from(map, s, i + 1, FALSE, acc)
    ELSE IF ~from_repr_ok(petscii_code.attributes)
        THEN Encoded("panic", <<>>, "EnumSet::from_repr: invalid bits")
    ELSE encode_codes(map, s, i, acc, shift_codes(petscii_code, shifted))

\* one character goes through filter_map and flat_map
encode_step(map, s, i, shifted, acc, petscii_code) ==
    IF ~petscii_code.some
        THEN encode_from(map, s, i + 1, shifted, acc)
    ELSE IF ~from_repr_ok(petscii_code.attributes)
        THEN Encoded("panic", <<>>, "EnumSet::from_repr: invalid bits")
    ELSE encode_codes(map, s, i, acc, shift_codes(petscii_code, shifted))

encode_from(map, s, i, shifted, acc) ==
    IF i > Len(s)
        THEN Encoded("ok", trailing_shift_out(shifted, acc), "")
        ELSE encode_step(map, s, i, shifted, acc, encode_char(map, s[i]))

\* unicode_to_petscii_bytes(s), where config is what PetsciiConfig::load()
\* returned
unicode_to_petscii_bytes(s, config) ==
    encode_from(character_set_map(config), s, 1, FALSE, <<>>)

(***************************************************************************)
(* PetsciiConfig::load() run without interference: the value CONFIG holds  *)
(* afterwards, and the character_set_map of the Config returned.           *)
(***************************************************************************)
load(config) == IF config # "None" THEN config ELSE "embedded"

(***************************************************************************)
(* Constructors.                                                           *)
(***************************************************************************)
\* PetsciiString::new
new(len, data) == PetsciiString(len, data, "None", FALSE)

\* PetsciiString::new_with_config
new_with_config(len, data, character_map) == PetsciiString(len, data, character_map, FALSE)

\* len() as it would be if it counted the bytes the array can hold
PetsciiString_len_stored(s) == IF s.len > Len(s.data) THEN Len(s.data) ELSE s.len

\* PetsciiString::len: self.len as usize
PetsciiString_len(s) == s.len

\* PetsciiString::is_empty: self.len == 0
is_empty(s) == s.len = 0

\* impl From<&[u8]> for PetsciiString<L>
from_u8_slice(cap, s) ==
    IF Len(s) > cap THEN Panicked("u8 slice is too large")
    ELSE IF cap > Len(s) THEN Panicked("range end index out of range for slice")
    ELSE PetsciiString(cap, ZeroFilled(cap, SubSeq(s, 1, cap)), "None", FALSE)

\* from_byte_slice_strip_shifted_space as it would be if it cut an oversize
\* slice down to the capacity
from_byte_slice_strip_shifted_space_truncating(cap, s) ==
    PetsciiString(cap, ZeroFilled(cap, SubSeq(s, 1, IF Len(s) > cap THEN cap ELSE Len(s))),
                  "None", TRUE)

\* PetsciiString::from_byte_slice_strip_shifted_space
from_byte_slice_strip_shifted_space(cap, s) ==
    IF Len(s) > cap THEN Panicked("u8 slice is too large")
    ELSE PetsciiString(cap, ZeroFilled(cap, s), "None", TRUE)

\* PetsciiString::from_byte_slice_strip_shifted_space_with_config
from_byte_slice_strip_shifted_space_with_config(cap, s, character_map) ==
    IF Len(s) > cap THEN Panicked("u8 slice is too large")
    ELSE PetsciiString(cap, ZeroFilled(cap, s), character_map, TRUE)

\* from_str as it would be if the capacity were tested against the number
\* of character codes, the shift codes left out
from_str_counting_characters(cap, enc) ==
    LET IsCharacter(b) == b \notin {14, 142}
    IN  IF enc.outcome = "panic" THEN Panicked(enc.msg)
        ELSE IF Len(SelectSeq(enc.bytes, IsCharacter)) > cap
            THEN Panicked("u8 slice is too large")
        ELSE PetsciiString(Len(enc.bytes), ZeroFilled(cap, enc.bytes), "None", FALSE)

\* From<&str> as it would be if it stored the embedded table set with the
\* buffer
from_str_carrying_map(cap, enc) ==
    IF enc.outcome = "panic" THEN Panicked(enc.msg)
    ELSE IF Len(enc.bytes) > cap THEN Panicked("u8 slice is too large")
    ELSE PetsciiString(Len(enc.bytes), ZeroFilled(cap, enc.bytes), "embedded", FALSE)

\* impl From<&str> for PetsciiString<L>, given the encoder's result
from_str(cap, enc) ==
    IF enc.outcome = "panic" THEN Panicked(enc.msg)
    ELSE IF Len(enc.bytes) > cap THEN Panicked("u8 slice is too large")
    ELSE PetsciiString(Len(enc.bytes), ZeroFilled(cap, enc.bytes), "None", FALSE)

\* from_str_with_config as it would be with len: L as u32, the way the
\* byte-slice constructors set it
from_str_with_config_len_cap(cap, enc, character_map) ==
    IF enc.outcome = "panic" THEN Panicked(enc.msg)
    ELSE IF Len(enc.bytes) > cap THEN Panicked("u8 vector is too large")
    ELSE PetsciiString(cap, ZeroFilled(cap, enc.bytes), character_map, FALSE)

\* PetsciiString::from_str_with_config, given the encoder's result
from_str_with_config(cap, enc, character_map) ==
    IF enc.outcome = "panic" THEN Panicked(enc.msg)
    ELSE IF Len(enc.bytes) > cap THEN Panicked("u8 vector is too large")
    ELSE PetsciiString(Len(enc.bytes), ZeroFilled(cap, enc.bytes), character_map, FALSE)

(***************************************************************************)
(* Initial state: nothing loaded, nothing built, no thread inside load().  *)
(***************************************************************************)
Call(op, cap, len, s, character_map) ==
    [op |-> op, cap |-> cap, len |-> len, s |-> s, character_map |-> character_map]

NotBuilt == [Panicked("") EXCEPT !.outcome = "none"]

NotDecoded == Decoded("none", <<>>, FALSE, {"Normal"}, "")

NotIterated == Iterated("none", <<>>)

NotJoined ==
    [ done |-> FALSE, s2 |-> <<>>, bytes2 |-> <<>>,
      whole |-> NotDecoded, first |-> NotDecoded, second |-> NotDecoded ]

\* the local conversion state of a call, and of the call before it
State(shifted, attributes) == [shifted |-> shifted, attributes |-> attributes]

\* a conversion call step by step: the buffer's map and flag (or the table
\* set the encoder loaded), the locals shifted and attributes, the bytes or
\* characters consumed so far, the last one, what the closure gave for it
\* and what went to the output, and the locals the previous call ended with
Conv(op, cm, strip, state, n, c, kind, out, before) ==
    [ op |-> op, cm |-> cm, strip |-> strip,
      shifted |-> state.shifted, attributes |-> state.attributes,
      n |-> n, c |-> c, kind |-> kind, out |-> out, before |-> before ]

NoCall ==
    Conv("none", "None", FALSE, State(FALSE, {"Normal"}), 0, 0, "none", <<>>,
         State(FALSE, {"Normal"}))

\* the call a thread makes: a decode of its own buffer or an encode of a text
Work(op, buf, s, result) == [op |-> op, buf |-> buf, s |-> s, result |-> result]

NoWork == Work("none", NotBuilt, <<>>, NotDecoded)

Init ==
    /\ CONFIG = "None"
    /\ src = Call("none", 0, 0, <<>>, "None")
    /\ ps = NotBuilt
    /\ bytes = Encoded("none", <<>>, "")
    /\ decoded = NotDecoded
    /\ joined = NotJoined
    /\ iter = NotIterated
    /\ pc = [t \in Threads |-> "idle"]
    /\ readers = {}
    /\ writer = 0
    /\ ret = [t \in Threads |-> "None"]
    /\ writes = 0
    /\ conv = NoCall
    /\ work = [t \in Threads |-> NoWork]

lockVars == <<pc, readers, writer, ret>>

callVars == <<conv, work>>

seqVars == <<src, ps, bytes, decoded, joined, iter>>

(***************************************************************************)
(* Spec: one caller, holding one buffer at a time.  The constructors that  *)
(* take text run PetsciiConfig::load() first, which fills CONFIG when it   *)
(* is None.                                                                *)
(***************************************************************************)
Built(call, value) ==
    /\ src' = call
    /\ ps' = value
    /\ decoded' = NotDecoded
    /\ joined' = NotJoined
    /\ iter' = NotIterated

New ==
    /\ src.op = "none"
    /\ \E len \in Lens, data \in [1..L -> ArrayBytes] :
        /\ Built(Call("new", L, len, data, "None"), new(len, data))
        /\ bytes' = Encoded("none", <<>>, "")
        /\ UNCHANGED <<CONFIG, writes, lockVars, callVars>>

NewWithConfig ==
    /\ src.op = "none"
    /\ \E len \in Lens, data \in [1..L -> ArrayBytes], cm \in SystemConfigs :
        /\ Built(Call("new_with_config", L, len, data, cm), new_with_config(len, data, cm))
        /\ bytes' = Encoded("none", <<>>, "")
        /\ UNCHANGED <<CONFIG, writes, lockVars, callVars>>

FromU8Slice ==
    /\ src.op = "none"
    /\ \E s \in SeqsUpTo(SliceBytes, MaxSrcLen) :
        /\ Built(Call("from_u8_slice", L, Len(s), s, "None"), from_u8_slice(L, s))
        /\ bytes' = Encoded("none", <<>>, "")
        /\ UNCHANGED <<CONFIG, writes, lockVars, callVars>>

FromByteSliceStripShiftedSpace ==
    /\ src.op = "none"
    /\ \E s \in SeqsUpTo(SliceBytes, MaxSrcLen) :
        /\ Built(Call("from_byte_slice_strip_shifted_space", L, Len(s), s, "None"),
                 from_byte_slice_strip_shifted_space(L, s))
        /\ bytes' = Encoded("none", <<>>, "")
        /\ UNCHANGED <<CONFIG, writes, lockVars, callVars>>

FromByteSliceStripShiftedSpaceWithConfig ==
    /\ src.op = "none"
    /\ \E s \in SeqsUpTo(SliceBytes, MaxSrcLen), cm \in SystemConfigs :
        /\ Built(Call("from_byte_slice_strip_shifted_space_with_config", L, Len(s), s, cm),
                 from_byte_slice_strip_shifted_space_with_config(L, s, cm))
        /\ bytes' = Encoded("none", <<>>, "")
        /\ UNCHANGED <<CONFIG, writes, lockVars, callVars>>

\* the load() inside unicode_to_petscii_bytes
Loaded ==
    /\ CONFIG' = load(CONFIG)
    /\ writes' = IF CONFIG = "None" THEN writes + 1 ELSE writes
    /\ UNCHANGED <<lockVars, callVars>>

FromStr ==
    /\ src.op = "none"
    /\ \E s \in SeqsUpTo(TextChars, MaxTextLen) :
        LET enc == unicode_to_petscii_bytes(s, load(CONFIG))
        IN  /\ Loaded
            /\ bytes' = enc
            /\ Built(Call("from_str", LStr, Len(s), s, "None"), from_str(LStr, enc))

FromStrWithConfig ==
    /\ src.op = "none"
    /\ \E s \in SeqsUpTo(TextChars, MaxTextLen), cm \in SystemConfigs :
        LET enc == unicode_to_petscii_bytes(s, load(CONFIG))
        IN  /\ Loaded
            /\ bytes' = enc
            /\ Built(Call("from_str_with_config", LStr, Len(s), s, cm),
                     from_str_with_config(LStr, enc, cm))

\* String::from(&ps) on the buffer built last
Decode ==
    /\ ps.outcome = "ok"
    /\ decoded.outcome = "none"
    /\ iter.outcome = "none"
    /\ decoded' = StringFrom(ps)
    /\ UNCHANGED <<CONFIG, src, ps, bytes, joined, iter, writes, lockVars, callVars>>

\* let mut it = ps.into_iter(); then it.next() until it has returned None,
\* and ExtraCalls more times
IntoIter ==
    /\ ps.outcome = "ok"
    /\ decoded.outcome = "none"
    /\ ~joined.done
    /\ iter.outcome = "none"
    /\ iter' = drain(ps, 0, ps.len + 1 + ExtraCalls, <<>>)
    /\ UNCHANGED <<CONFIG, src, ps, bytes, decoded, joined, writes, lockVars, callVars>>

\* a PetsciiConfig::load() call of the caller
Load ==
    /\ src.op = "none"
    /\ CONFIG = "None"
    /\ Loaded
    /\ UNCHANGED <<src, ps, bytes, decoded, joined, iter>>

\* the caller lets go of the buffer (and of a panic's remains)
Drop ==
    /\ src.op # "none"
    /\ src' = Call("none", 0, 0, <<>>, "None")
    /\ ps' = NotBuilt
    /\ bytes' = Encoded("none", <<>>, "")
    /\ decoded' = NotDecoded
    /\ joined' = NotJoined
    /\ iter' = NotIterated
    /\ UNCHANGED <<CONFIG, writes, lockVars, callVars>>

\* a second text is encoded on its own and its bytes are appended to the
\* bytes of the first; the whole and the two parts are decoded from arrays
\* of exactly their length, with the character map of the first call
Concatenate ==
    /\ src.op \in {"from_str", "from_str_with_config"}
    /\ bytes.outcome = "ok"
    /\ decoded.outcome = "none"
    /\ iter.outcome = "none"
    /\ ~joined.done
    /\ \E s2 \in SeqsUpTo(SecondChars, MaxSecondLen) :
        LET enc2 == unicode_to_petscii_bytes(s2, load(CONFIG))
            buf(b) == PetsciiString(Len(b), b, src.character_map, FALSE)
        IN  /\ enc2.outcome = "ok"
            /\ joined' = [ done |-> TRUE, s2 |-> s2, bytes2 |-> enc2.bytes,
                           whole |-> StringFrom(buf(bytes.bytes \o enc2.bytes)),
                           first |-> StringFrom(buf(bytes.bytes)),
                           second |-> StringFrom(buf(enc2.bytes)) ]
    /\ UNCHANGED <<CONFIG, src, ps, bytes, decoded, iter, writes, lockVars, callVars>>

Next ==
    \/ Load
    \/ Drop
    \/ New
    \/ NewWithConfig
    \/ FromU8Slice
    \/ FromByteSliceStripShiftedSpace
    \/ FromByteSliceStripShiftedSpaceWithConfig
    \/ FromStr
    \/ FromStrWithConfig
    \/ Decode

Spec == Init /\ [][Next]_vars

(***************************************************************************)
(* SpecIter: a caller that walks a buffer with its iterator.               *)
(***************************************************************************)
NextIter ==
    \/ Drop
    \/ New
    \/ NewWithConfig
    \/ FromU8Slice
    \/ FromByteSliceStripShiftedSpace
    \/ IntoIter

SpecIter == Init /\ [][NextIter]_vars

(***************************************************************************)
(* SpecJoin: a caller that encodes two texts and joins their bytes.        *)
(***************************************************************************)
NextJoin ==
    \/ Drop
    \/ FromStr
    \/ FromStrWithConfig
    \/ Concatenate

SpecJoin == Init /\ [][NextJoin]_vars

(***************************************************************************)
(* SpecConfig: a caller that also writes the public static CONFIG itself  *)
(* and then builds buffers from text.                                      *)
(***************************************************************************)
\* *CONFIG.write().unwrap() = Some(cm), while no buffer is held
StoreConfig ==
    /\ src.op = "none"
    /\ \E cm \in SystemConfigs :
        /\ CONFIG # cm
        /\ CONFIG' = cm
    /\ UNCHANGED <<src, ps, bytes, decoded, joined, iter, writes, lockVars, callVars>>

NextConfig ==
    \/ StoreConfig
    \/ Load
    \/ Drop
    \/ FromStr
    \/ FromStrWithConfig
    \/ Decode

SpecConfig == Init /\ [][NextConfig]_vars

(***************************************************************************)
(* SpecCalls: one caller making conversion calls one after another, each   *)
(* followed step by step: the closure of String::from on the bytes the     *)
(* iterator hands out, the closures of unicode_to_petscii_bytes on the     *)
(* characters of the text.                                                 *)
(***************************************************************************)
\* bytes handed to the decoder's closure: those of the arrays and slices,
\* and 167 with its duplicate 231, whose screen code has no Unicode entry
ConvBytes == ArrayBytes \cup SliceBytes \cup {167, 231}

\* the locals as they would be if they outlived the call
begin_decode_state_kept(call, cm, strip) ==
    Conv("decode", cm, strip, call.before, 0, 0, "start", <<>>, call.before)

\* let mut attributes = EnumSet::new(); let mut shifted = false;
\* attributes.insert(CharacterAttributes::Normal);
begin_decode(call, cm, strip) ==
    Conv("decode", cm, strip, State(FALSE, {"Normal"}), 0, 0, "start", <<>>, call.before)

\* the filter and the filter_map closure on the next byte
decode_step(call, c) ==
    LET r == filtered([strip_shifted_space |-> call.strip, character_map |-> call.cm],
                      c, call.shifted, call.attributes)
    IN  Conv("decode", call.cm, call.strip, State(r.shifted, r.attributes),
             call.n + 1, c, r.kind,
             IF r.kind = "some" THEN <<r.ch>> ELSE <<>>, call.before)

\* the call is over (collect() returned, or the panic unwound): the locals
\* are gone
end_call(call, out) ==
    Conv("none", "None", FALSE, State(FALSE, {"Normal"}), 0, 0, "end", out,
         State(call.shifted, call.attributes))

\* the same three lines at the top of unicode_to_petscii_bytes, and the
\* table set PetsciiConfig::load() returned
begin_encode(call, config) ==
    Conv("encode", config, FALSE, State(FALSE, {"Normal"}), 0, 0, "start", <<>>, call.before)

\* the codes of a character that has a PETSCII code
encode_step_codes(call, c, petscii_code, out) ==
    Conv("encode", call.cm, FALSE, State(out.shifted, call.attributes),
         call.n + 1, c, "some", out.codes, call.before)

\* the filter_map and flat_map closures on the next character
encode_char_step(call, c, petscii_code) ==
    IF ~petscii_code.some
        THEN Conv("encode", call.cm, FALSE, State(call.shifted, call.attributes),
                  call.n + 1, c, "none", <<>>, call.before)
    ELSE IF ~from_repr_ok(petscii_code.attributes)
        THEN Conv("encode", call.cm, FALSE, State(call.shifted, call.attributes),
                  call.n + 1, c, "panic", <<>>, call.before)
    ELSE encode_step_codes(call, c, petscii_code, shift_codes(petscii_code, call.shifted))

BeginDecode ==
    /\ conv.op = "none"
    /\ \E cm \in {"None"} \cup SystemConfigs, strip \in BOOLEAN :
        conv' = begin_decode(conv, cm, strip)
    /\ UNCHANGED <<CONFIG, writes, seqVars, lockVars, work>>

DecodeByte ==
    /\ conv.op = "decode"
    /\ conv.kind # "panic"
    /\ conv.n < L
    /\ \E c \in ConvBytes : conv' = decode_step(conv, c)
    /\ UNCHANGED <<CONFIG, writes, seqVars, lockVars, work>>

EndDecode ==
    /\ conv.op = "decode"
    /\ conv' = end_call(conv, <<>>)
    /\ UNCHANGED <<CONFIG, writes, seqVars, lockVars, work>>

BeginEncode ==
    /\ conv.op = "none"
    /\ conv' = begin_encode(conv, load(CONFIG))
    /\ CONFIG' = load(CONFIG)
    /\ writes' = IF CONFIG = "None" THEN writes + 1 ELSE writes
    /\ UNCHANGED <<seqVars, lockVars, work>>

EncodeChar ==
    /\ conv.op = "encode"
    /\ conv.kind # "panic"
    /\ conv.n < MaxTextLen
    /\ \E c \in TextChars :
        conv' = encode_char_step(conv, c, encode_char(character_set_map(conv.cm), c))
    /\ UNCHANGED <<CONFIG, writes, seqVars, lockVars, work>>

\* if shifted { bytes.push(0x8E); } and the return
EndEncode ==
    /\ conv.op = "encode"
    /\ conv' = end_call(conv, IF conv.kind = "panic" THEN <<>>
                              ELSE trailing_shift_out(conv.shifted, <<>>))
    /\ UNCHANGED <<CONFIG, writes, seqVars, lockVars, work>>

NextCalls ==
    \/ BeginDecode
    \/ DecodeByte
    \/ EndDecode
    \/ BeginEncode
    \/ EncodeChar
    \/ EndEncode

SpecCalls == Init /\ [][NextCalls]_vars

(***************************************************************************)
(* SpecLoad: threads inside PetsciiConfig::load().  The RwLock admits any  *)
(* number of readers or one writer.                                        *)
(***************************************************************************)
\* let crate_config = crate::Config::load()?;
LoadCall(t) ==
    /\ pc[t] = "idle"
    /\ pc' = [pc EXCEPT ![t] = "read"]
    /\ ret' = [ret EXCEPT ![t] = "None"]
    /\ UNCHANGED <<CONFIG, readers, writer, writes, seqVars, callVars>>

\* let crate_config = crate::Config::load()?; as it would be if it
\* came after the block that stores the table set
CrateConfigErr_after_store(t) ==
    /\ pc[t] = "idle"
    /\ CONFIG' = "embedded"
    /\ writes' = writes + 1
    /\ pc' = [pc EXCEPT ![t] = "failed"]
    /\ ret' = [ret EXCEPT ![t] = "Err"]
    /\ UNCHANGED <<readers, writer, seqVars, callVars>>

\* let crate_config = crate::Config::load()?; when serde_json::from_str
\* rejects config_data::CONFIG_DATA: the ? returns the converted error
CrateConfigErr(t) ==
    /\ pc[t] = "idle"
    /\ pc' = [pc EXCEPT ![t] = "failed"]
    /\ ret' = [ret EXCEPT ![t] = "Err"]
    /\ UNCHANGED <<CONFIG, readers, writer, writes, seqVars, callVars>>

\* CONFIG.read()
ReadLock(t) ==
    /\ pc[t] = "read"
    /\ writer = 0
    /\ readers' = readers \cup {t}
    /\ pc' = [pc EXCEPT ![t] = "test"]
    /\ UNCHANGED <<CONFIG, writer, ret, writes, seqVars, callVars>>

\* the test as it would be if the read guard lived to the end of load()
\* when CONFIG is None
TestIsSome_guard_kept(t) ==
    /\ pc[t] = "test"
    /\ IF CONFIG # "None"
           THEN /\ ret' = [ret EXCEPT ![t] = CONFIG]
                /\ pc' = [pc EXCEPT ![t] = "done"]
                /\ readers' = readers \ {t}
           ELSE /\ pc' = [pc EXCEPT ![t] = "parse"]
                /\ UNCHANGED <<ret, readers>>
    /\ UNCHANGED <<CONFIG, writer, writes, seqVars, callVars>>

\* the test as it would be if the returned table set were parsed afresh
TestIsSome_parsed_afresh(t) ==
    /\ pc[t] = "test"
    /\ readers' = readers \ {t}
    /\ IF CONFIG # "None"
           THEN /\ ret' = [ret EXCEPT ![t] = "embedded"]
                /\ pc' = [pc EXCEPT ![t] = "done"]
           ELSE /\ pc' = [pc EXCEPT ![t] = "parse"]
                /\ UNCHANGED ret
    /\ UNCHANGED <<CONFIG, writer, writes, seqVars, callVars>>

\* if test.is_some() { return Ok(.. petscii_config.clone() ..) }, and the end
\* of the block that holds the read guard
TestIsSome(t) ==
    /\ pc[t] = "test"
    /\ readers' = readers \ {t}
    /\ IF CONFIG # "None"
           THEN /\ ret' = [ret EXCEPT ![t] = CONFIG]
                /\ pc' = [pc EXCEPT ![t] = "done"]
           ELSE /\ pc' = [pc EXCEPT ![t] = "parse"]
                /\ UNCHANGED ret
    /\ UNCHANGED <<CONFIG, writer, writes, seqVars, callVars>>

\* serde_json::from_str(config_data::C64_PETSCII_MAP)
Parse(t) ==
    /\ pc[t] = "parse"
    /\ pc' = [pc EXCEPT ![t] = "write"]
    /\ UNCHANGED <<CONFIG, readers, writer, ret, writes, seqVars, callVars>>

\* CONFIG.write()
WriteLock(t) ==
    /\ pc[t] = "write"
    /\ writer = 0
    /\ readers = {}
    /\ writer' = t
    /\ pc' = [pc EXCEPT ![t] = "assign"]
    /\ UNCHANGED <<CONFIG, readers, ret, writes, seqVars, callVars>>

\* the write block as it would be without the assignment
Assign_not_stored(t) ==
    /\ pc[t] = "assign"
    /\ writer' = 0
    /\ pc' = [pc EXCEPT ![t] = "return"]
    /\ UNCHANGED <<CONFIG, writes, readers, ret, seqVars, callVars>>

\* *lock_res = Some(petscii_config.clone()); the write guard is dropped
Assign(t) ==
    /\ pc[t] = "assign"
    /\ CONFIG' = "embedded"
    /\ writes' = writes + 1
    /\ writer' = 0
    /\ pc' = [pc EXCEPT ![t] = "return"]
    /\ UNCHANGED <<readers, ret, seqVars, callVars>>

\* Ok(crate::Config { .. character_set_map: petscii_config.clone() })
Return(t) ==
    /\ pc[t] = "return"
    /\ ret' = [ret EXCEPT ![t] = "embedded"]
    /\ pc' = [pc EXCEPT ![t] = "done"]
    /\ UNCHANGED <<CONFIG, readers, writer, writes, seqVars, callVars>>

NextLoad ==
    \/ \E t \in Threads : LoadCall(t)
    \/ \E t \in Threads : CrateConfigErr(t)
    \/ \E t \in Threads : ReadLock(t)
    \/ \E t \in Threads : TestIsSome(t)
    \/ \E t \in Threads : Parse(t)
    \/ \E t \in Threads : WriteLock(t)
    \/ \E t \in Threads : Assign(t)
    \/ \E t \in Threads : Return(t)

SpecLoad == Init /\ [][NextLoad]_vars

\* the steps of a thread that is inside load()
LoadStep(t) ==
    \/ ReadLock(t)
    \/ TestIsSome(t)
    \/ Parse(t)
    \/ WriteLock(t)
    \/ Assign(t)
    \/ Return(t)

\* SpecLoadFair: the scheduler runs every thread that can take a step, and
\* the lock is granted to a thread that waits while it stays free
SpecLoadFair == SpecLoad /\ \A t \in Threads : WF_vars(LoadStep(t))

(***************************************************************************)
(* SpecPar: threads making conversion calls in parallel once CONFIG holds  *)
(* a table set.  A decode borrows its buffer and the map the buffer        *)
(* carries; an encode goes through PetsciiConfig::load(), whose steps are  *)
(* those of SpecLoad, and then works on the clone load() returned.         *)
(***************************************************************************)
Workers == 1..NumWorkers

\* the bytes and characters of the calls made in parallel
ParBytes == {14, 65}

ParChars == {65, 97}

\* CONFIG was initialized by a load() or by a caller's own table set
InitPar ==
    /\ CONFIG \in SystemConfigs
    /\ src = Call("none", 0, 0, <<>>, "None")
    /\ ps = NotBuilt
    /\ bytes = Encoded("none", <<>>, "")
    /\ decoded = NotDecoded
    /\ joined = NotJoined
    /\ iter = NotIterated
    /\ pc = [t \in Threads |-> "idle"]
    /\ readers = {}
    /\ writer = 0
    /\ ret = [t \in Threads |-> "None"]
    /\ writes = 0
    /\ conv = NoCall
    /\ work = [t \in Threads |-> NoWork]

\* a decode as it would be if it kept the map of its buffer in CONFIG
DecodeCall_storing_map(t) ==
    /\ t \in Workers
    /\ work[t].op = "none"
    /\ \E data \in [1..ParLen -> ParBytes], cm \in SystemConfigs :
        /\ work' = [work EXCEPT ![t] =
                        Work("decode", new_with_config(ParLen, data, cm), <<>>,
                             StringFrom(new_with_config(ParLen, data, cm)))]
        /\ CONFIG' = cm
    /\ UNCHANGED <<writes, seqVars, lockVars, conv>>

\* String::from(&buffer) on a buffer of the thread's own
DecodeCall(t) ==
    /\ t \in Workers
    /\ work[t].op = "none"
    /\ \E data \in [1..ParLen -> ParBytes], cm \in SystemConfigs :
        work' = [work EXCEPT ![t] =
                     Work("decode", new_with_config(ParLen, data, cm), <<>>,
                          StringFrom(new_with_config(ParLen, data, cm)))]
    /\ UNCHANGED <<CONFIG, writes, seqVars, lockVars, conv>>

\* unicode_to_petscii_bytes(s) is entered and calls PetsciiConfig::load()
EncodeCall(t) ==
    /\ t \in Workers
    /\ work[t].op = "none"
    /\ pc[t] = "idle"
    /\ \E s \in [1..ParLen -> ParChars] :
        work' = [work EXCEPT ![t] = Work("encode", NotBuilt, s, Encoded("none", <<>>, ""))]
    /\ pc' = [pc EXCEPT ![t] = "read"]
    /\ UNCHANGED <<CONFIG, writes, seqVars, readers, writer, ret, conv>>

\* load() has returned: the iterator chain runs on the returned table set
EncodeWith(t) ==
    /\ work[t].op = "encode"
    /\ work[t].result.outcome = "none"
    /\ pc[t] = "done"
    /\ work' = [work EXCEPT ![t].result = unicode_to_petscii_bytes(work[t].s, ret[t])]
    /\ pc' = [pc EXCEPT ![t] = "idle"]
    /\ UNCHANGED <<CONFIG, writes, seqVars, readers, writer, ret, conv>>

NextPar ==
    \/ \E t \in Threads : DecodeCall(t)
    \/ \E t \in Threads : EncodeCall(t)
    \/ \E t \in Threads : ReadLock(t)
    \/ \E t \in Threads : TestIsSome(t)
    \/ \E t \in Threads : EncodeWith(t)

SpecPar == InitPar /\ [][NextPar]_vars

(***************************************************************************)
(* SpecMix: the operations that can reach CONFIG, made by different        *)
(* threads at once: one thread decodes, one encodes (and so goes through   *)
(* load()), the threads that are not workers call load() and               *)
(* load_from_file().  CONFIG starts None or holds a table set stored       *)
(* earlier.                                                                *)
(***************************************************************************)
Decoder == 1

Encoder == NumWorkers

Loaders == Threads \ Workers

InitMix ==
    /\ CONFIG \in {"None"} \cup SystemConfigs
    /\ src = Call("none", 0, 0, <<>>, "None")
    /\ ps = NotBuilt
    /\ bytes = Encoded("none", <<>>, "")
    /\ decoded = NotDecoded
    /\ joined = NotJoined
    /\ iter = NotIterated
    /\ pc = [t \in Threads |-> "idle"]
    /\ readers = {}
    /\ writer = 0
    /\ ret = [t \in Threads |-> "None"]
    /\ writes = 0
    /\ conv = NoCall
    /\ work = [t \in Threads |-> NoWork]

\* load_from_file as it would be if it kept the file's table set in CONFIG
LoadFromFile_storing(t) ==
    /\ pc[t] = "idle"
    /\ \E r \in SystemConfigs \cup {"Err"} :
        /\ ret' = [ret EXCEPT ![t] = r]
        /\ CONFIG' = IF r = "Err" THEN CONFIG ELSE r
    /\ pc' = [pc EXCEPT ![t] = "from_file"]
    /\ UNCHANGED <<readers, writer, writes, seqVars, callVars>>

\* PetsciiConfig::load_from_file(filename): crate::Config::load_from_file
\* opens and parses the file; the result is the file's configuration or the
\* io / serde_json error
LoadFromFile(t) ==
    /\ pc[t] = "idle"
    /\ \E r \in SystemConfigs \cup {"Err"} :
        ret' = [ret EXCEPT ![t] = r]
    /\ pc' = [pc EXCEPT ![t] = "from_file"]
    /\ UNCHANGED <<CONFIG, readers, writer, writes, seqVars, callVars>>

NextMix ==
    \/ DecodeCall(Decoder)
    \/ EncodeCall(Encoder)
    \/ EncodeWith(Encoder)
    \/ \E t \in Loaders : LoadCall(t)
    \/ \E t \in Loaders : CrateConfigErr(t)
    \/ \E t \in Loaders : LoadFromFile(t)
    \/ \E t \in Threads : ReadLock(t)
    \/ \E t \in Threads : TestIsSome(t)
    \/ \E t \in Threads : Parse(t)
    \/ \E t \in Threads : WriteLock(t)
    \/ \E t \in Threads : Assign(t)
    \/ \E t \in Threads : Return(t)

SpecMix == InitMix /\ [][NextMix]_vars

(***************************************************************************)
(* Properties.                                                             *)
(***************************************************************************)
Range(f) == {f[i] : i \in DOMAIN f}

ControlCodes == {14, 18, 142, 146}

\* the bytes of a buffer that are neither a control code nor, with the strip
\* flag set, the pad 0xA0
Printing(s, b) == b \notin ControlCodes /\ ~(s.strip_shifted_space /\ b = 160)

\* positions within the logical length that hold such a byte
PrintingAt(s) == {i \in 1..s.len : Printing(s, s.data[i])}

\* the decoder's shift state when it reaches position i: set by the last
\* 0x0E or 0x8E before i
ShiftedAt(s, i) ==
    LET ctl == {j \in 1..(i - 1) : s.data[j] \in {14, 142}}
    IN  ctl # {} /\ s.data[CHOOSE j \in ctl : \A k \in ctl : k <= j] = 14

DecodedNoMap == ps.outcome = "ok" /\ ps.character_map = "None" /\ decoded.outcome # "none"

\* C1 as stated: decoding a buffer without character map yields exactly one
\* character per byte of the logical length, in order, with the byte's value
C1_OneCharPerByte ==
    DecodedNoMap =>
        /\ decoded.outcome = "ok"
        /\ Len(decoded.chars) = ps.len
        /\ \A i \in 1..Len(decoded.chars) : decoded.chars[i] = ps.data[i]

\* C1 amended: decoding a buffer without character map yields, in order, one
\* character of the byte's value per byte of the logical length that is not
\* a control code 0x0E, 0x12, 0x8E, 0x92 and not a stripped pad 0xA0; it
\* panics instead when the logical length exceeds the capacity
C1_IdentityExceptControlCodes ==
    DecodedNoMap =>
        IF ps.len > Len(ps.data)
            THEN decoded.outcome = "panic"
            ELSE LET Keep(b) == Printing(ps, b)
                 IN  /\ decoded.outcome = "ok"
                     /\ decoded.chars = SelectSeq(SubSeq(ps.data, 1, ps.len), Keep)

\* a buffer without map holding a control code and 0xFF has been decoded to
\* a string that has the 0xFF and lacks the control code
C1_Witness ==
    /\ DecodedNoMap
    /\ ps.len = Len(ps.data)
    /\ 14 \in Range(ps.data)
    /\ 255 \in Range(ps.data)
    /\ decoded.outcome = "ok"
    /\ 255 \in Range(decoded.chars)
    /\ Len(decoded.chars) < ps.len

\* the normalized code of the byte at i has no (well-formed) entry in the
\* PETSCII-to-screen table the shift state selects
Unmapped(s, i) ==
    LET map == character_set_map(s.character_map)
        table == IF ShiftedAt(s, i)
                     THEN map.c64_petscii_shifted_codes_to_screen_codes
                     ELSE map.c64_petscii_unshifted_codes_to_screen_codes
    IN  to_string(duplicate(s.data[i])) \notin DOMAIN table

\* C2: with a character map, a byte that is no control code and has no
\* entry in the selected PETSCII-to-screen table is emitted as the character
\* of the original byte's value; no such byte is dropped.  Stated for the
\* table set the caller supplies, whose gaps are certain.
C2_UnmappedByteEmitted ==
    (ps.outcome = "ok" /\ ps.character_map = "caller" /\ decoded.outcome = "ok") =>
        /\ Len(decoded.chars) = Cardinality(PrintingAt(ps))
        /\ \A i \in PrintingAt(ps) :
               Unmapped(ps, i) =>
                   decoded.chars[Cardinality({j \in PrintingAt(ps) : j <= i})] = ps.data[i]

\* C3: under any interleaving of load() calls CONFIG is assigned at most once
C3_WrittenAtMostOnce == writes <= 1

Uppercase(s) == \A i \in 1..Len(s) : s[i] \in 65..90

Lowercase(s) == \A i \in 1..Len(s) : s[i] \in 97..122

\* C4: a text of uppercase letters that fits the capacity is encoded by
\* from_str_with_config to the letters' codes 0x41..0x5A and nothing else,
\* and decoding that buffer with the same table set gives the text back
C4_UppercaseRoundTrip ==
    (/\ src.op = "from_str_with_config"
     /\ src.character_map = "embedded"
     /\ Uppercase(src.s)
     /\ Len(src.s) <= src.cap) =>
        /\ ps.outcome = "ok"
        /\ ps.len = Len(src.s)
        /\ SubSeq(ps.data, 1, ps.len) = src.s
        /\ \A i \in 1..ps.len : ps.data[i] \in 65..90
        /\ decoded.outcome # "none" => (decoded.outcome = "ok" /\ decoded.chars = src.s)

\* "AZZ" (or another three uppercase letters with A and Z) has made the round
\* trip
C4_Witness ==
    /\ src.op = "from_str_with_config"
    /\ src.character_map = "embedded"
    /\ Len(src.s) = 3
    /\ {65, 90} \subseteq Range(src.s)
    /\ ps.outcome = "ok"
    /\ decoded.outcome = "ok"
    /\ decoded.chars = src.s

\* C5: a non-empty text of lowercase letters is encoded to 0x0E, the codes
\* 0x41..0x5A of the letters in order, 0x8E; decoding these bytes with the
\* table set gives the text back
C5_LowercaseBracketed ==
    (src.op \in {"from_str", "from_str_with_config"} /\ Lowercase(src.s) /\ Len(src.s) >= 1) =>
        /\ bytes.outcome = "ok"
        /\ Len(bytes.bytes) = Len(src.s) + 2
        /\ bytes.bytes = <<14>> \o [i \in 1..Len(src.s) |-> src.s[i] - 32] \o <<142>>
        /\ (/\ src.op = "from_str_with_config"
            /\ src.character_map = "embedded"
            /\ decoded.outcome # "none") => (decoded.outcome = "ok" /\ decoded.chars = src.s)

\* "az." (three lowercase letters with a and z) has been encoded into five
\* bytes and decoded again
C5_Witness ==
    /\ src.op = "from_str_with_config"
    /\ src.character_map = "embedded"
    /\ Len(src.s) = 3
    /\ {97, 122} \subseteq Range(src.s)
    /\ ps.outcome = "ok"
    /\ ps.len = 5
    /\ decoded.outcome = "ok"
    /\ decoded.chars = src.s

EncodedText == src.op \in {"from_str", "from_str_with_config"} /\ bytes.outcome = "ok"

\* C6 as stated: an encoder output that holds a 0x0E ends with 0x8E
C6_EndsWithShiftOut ==
    (EncodedText /\ 14 \in Range(bytes.bytes)) => bytes.bytes[Len(bytes.bytes)] = 142

\* the characters of the text that the encoder maps, in order
Mapped(s) ==
    LET IsMapped(c) == encode_char(character_set_map("embedded"), c).some
    IN  SelectSeq(s, IsMapped)

\* the last mapped character of the text has the shifted attribute
LastIsShifted(s) ==
    /\ Mapped(s) # <<>>
    /\ encode_char(character_set_map("embedded"), Mapped(s)[Len(Mapped(s))]).attributes = 1

\* C6 amended: in an encoder output every 0x0E is followed, later on, by a
\* 0x8E, and the output ends with 0x8E exactly when the last mapped
\* character of the text is a shifted one
C6_ShiftInIsClosed ==
    EncodedText =>
        /\ \A i \in 1..Len(bytes.bytes) :
               bytes.bytes[i] = 14 =>
                   \E j \in (i + 1)..Len(bytes.bytes) : bytes.bytes[j] = 142
        /\ LastIsShifted(src.s) <=>
               (bytes.bytes # <<>> /\ bytes.bytes[Len(bytes.bytes)] = 142)

\* a text with a lowercase letter before an uppercase one has been encoded:
\* the output holds 0x0E and 0x8E and ends with the uppercase letter's code
C6_Witness ==
    /\ EncodedText
    /\ 14 \in Range(bytes.bytes)
    /\ 142 \in Range(bytes.bytes)
    /\ bytes.bytes[Len(bytes.bytes)] \in 65..90

\* C7: the decoder is unshifted after the bytes of an encoded text, and the
\* bytes of two encoded texts, concatenated, decode to the concatenation of
\* what each decodes to
C7_NoDanglingShift ==
    joined.done =>
        /\ joined.first.outcome = "ok"
        /\ ~joined.first.shifted
        /\ joined.whole.outcome = "ok"
        /\ joined.second.outcome = "ok"
        /\ joined.whole.chars = joined.first.chars \o joined.second.chars

\* a text ending in a lowercase letter was followed by one starting with an
\* uppercase letter, and both were decoded with the embedded tables
C7_Witness ==
    /\ joined.done
    /\ src.character_map = "embedded"
    /\ src.s # <<>> /\ src.s[Len(src.s)] \in 97..122
    /\ joined.s2 # <<>> /\ joined.s2[1] \in 65..90
    /\ joined.whole.chars = src.s \o joined.s2

ByteSliceOps ==
    { "from_u8_slice", "from_byte_slice_strip_shifted_space",
      "from_byte_slice_strip_shifted_space_with_config" }

TextOps == {"from_str", "from_str_with_config"}

TooLarge == {"u8 slice is too large", "u8 vector is too large"}

\* C8: a constructor whose source is longer than the capacity (the slice for
\* the byte-slice constructors, the encoded bytes for the text constructors)
\* panics with the oversize message and returns no buffer
C8_OversizePanics ==
    /\ (src.op \in ByteSliceOps /\ Len(src.s) > src.cap) =>
           (ps.outcome = "panic" /\ ps.msg \in TooLarge)
    /\ (src.op \in TextOps /\ bytes.outcome = "ok" /\ Len(bytes.bytes) > src.cap) =>
           (ps.outcome = "panic" /\ ps.msg \in TooLarge)

\* a strip constructor was handed a slice one byte longer than the capacity
C8_Witness ==
    /\ src.op = "from_byte_slice_strip_shifted_space"
    /\ Len(src.s) = src.cap + 1
    /\ ps.outcome = "panic"

\* C9: building from a slice of n <= L bytes succeeds, and the array holds
\* the n bytes followed by L - n zero bytes
C9_SliceWithinCapacityBuilds ==
    (src.op \in ByteSliceOps /\ Len(src.s) <= src.cap) =>
        /\ ps.outcome = "ok"
        /\ ps.data = [i \in 1..src.cap |-> IF i <= Len(src.s) THEN src.s[i] ELSE 0]

\* C10: for a source shorter than the capacity the trailing bytes are zero,
\* the logical length is the length of the source (of the encoded bytes for
\* the text constructors), and decoding emits nothing for the zero fill
C10_ZeroFillExcluded ==
    LET n == IF src.op \in TextOps THEN Len(bytes.bytes) ELSE Len(src.s)
    IN  (src.op \in ByteSliceOps \cup TextOps /\ ps.outcome = "ok" /\ n < src.cap) =>
            /\ \A i \in (n + 1)..src.cap : ps.data[i] = 0
            /\ ps.len = n
            /\ decoded.outcome = "ok" => Len(decoded.chars) <= n

\* C11: a buffer a public constructor returned has a logical length that is
\* at most the capacity of its array
C11_LenWithinCapacity == ps.outcome = "ok" => ps.len <= Len(ps.data)

\* C12: the calls of next() on a buffer's iterator return Some(data[0]), ..,
\* Some(data[len - 1]) in that order and None on every call after that; no
\* call fails
C12_IterationYieldsLenBytes ==
    iter.outcome # "none" =>
        /\ iter.outcome = "ok"
        /\ iter.results =
               [i \in 1..(ps.len + 1 + ExtraCalls) |->
                    IF i <= ps.len THEN <<ps.data[i]>> ELSE <<>>]

\* the byte the claim names for a byte of the duplicated ranges
DuplicateOf(b) ==
    IF b \in 192..223 THEN b - 96
    ELSE IF b \in 224..254 THEN b - 64
    ELSE IF b = 255 THEN 126
    ELSE b

\* the buffer s with every byte b replaced by f(b)
WithData(s, f(_)) == [s EXCEPT !.data = [i \in DOMAIN s.data |-> f(s.data[i])]]

DecodedWithMap == ps.outcome = "ok" /\ ps.character_map # "None" /\ decoded.outcome # "none"

\* C13 as stated: with a table set, a buffer decodes to what the buffer
\* decodes to that holds b - 96 for each byte b in 192..223, b - 64 for each
\* b in 224..254 and 126 for each 255: same outcome, same characters, same
\* final conversion state
C13_DuplicatesDecodeAlike ==
    DecodedWithMap => decoded = StringFrom(WithData(ps, DuplicateOf))

\* C13 amended: the same, except that in a buffer with the strip flag the
\* byte 224 is not replaced: it is not dropped as the pad 160 is, and it
\* goes through the closure as 160 would in every conversion state
C13_DuplicatesDecodeAlikeUnlessStripped ==
    DecodedWithMap =>
        LET Kept(b) == IF ps.strip_shifted_space /\ b = 224 THEN b ELSE DuplicateOf(b)
        IN  /\ decoded = StringFrom(WithData(ps, Kept))
            /\ \A shifted \in BOOLEAN, attributes \in {{"Normal"}, {"Reversed"}} :
                   decode_byte(ps.character_map, 224, shifted, attributes)
                       = decode_byte(ps.character_map, 160, shifted, attributes)

\* a buffer with the strip flag and the caller's tables that holds the pad
\* 160 and its duplicate 224 has been decoded: one no-break space came out
C13_Witness ==
    /\ DecodedWithMap
    /\ ps.strip_shifted_space
    /\ ps.character_map = "caller"
    /\ {160, 224} \subseteq Range(ps.data)
    /\ decoded.outcome = "ok"
    /\ Cardinality({i \in 1..Len(decoded.chars) : decoded.chars[i] = 160}) = 1

\* the decoder's video state when it reaches position i: set by the last
\* 0x12 or 0x92 before i
ReversedAt(s, i) ==
    LET ctl == {j \in 1..(i - 1) : s.data[j] \in {18, 146}}
    IN  ctl # {} /\ s.data[CHOOSE j \in ctl : \A k \in ctl : k <= j] = 18

\* positions whose byte has an entry in the PETSCII-to-screen table of the
\* shift state
MappedAt(s) == {i \in PrintingAt(s) : ~Unmapped(s, i)}

\* the character the claim gives the mapped byte at i: the entry of the
\* screen-to-Unicode table of its set under the screen code, plus 128 in
\* reversed video, and the normalised byte where that table has no entry
GlyphAt(s, i) ==
    LET map == character_set_map(s.character_map)
        table == IF ShiftedAt(s, i)
                     THEN map.c64_petscii_shifted_codes_to_screen_codes
                     ELSE map.c64_petscii_unshifted_codes_to_screen_codes
        entry == table[to_string(DuplicateOf(s.data[i]))].v
        unicode == IF entry[1] = 1 THEN map.c64_screen_codes_set_1_to_unicode_codes
                   ELSE IF entry[1] = 2 THEN map.c64_screen_codes_set_2_to_unicode_codes
                   ELSE map.c64_screen_codes_set_3_to_unicode_codes
        key == to_string(IF ReversedAt(s, i) THEN entry[2] + 128 ELSE entry[2])
    IN  IF key \in DOMAIN unicode THEN unicode[key].v[1] ELSE DuplicateOf(s.data[i])

\* C14: a buffer with a table set decodes to the glyphs of its mapped bytes
\* in order, each looked up under screen code + 128 while video is reversed
\* (after 0x12, before the next 0x92) and under the screen code otherwise
C14_ReversedGlyphs ==
    (DecodedWithMap /\ decoded.outcome = "ok") =>
        decoded.chars =
            [n \in 1..Cardinality(MappedAt(ps)) |->
                 GlyphAt(ps, CHOOSE i \in MappedAt(ps) :
                                 Cardinality({j \in MappedAt(ps) : j <= i}) = n)]

\* with the embedded tables the spade 0x61, 0x12 and the spade's duplicate
\* 0xC1 have been decoded to the black spade and the outline spade
C14_Witness ==
    /\ DecodedWithMap
    /\ ps.character_map = "embedded"
    /\ ps.len = 3
    /\ ps.data = <<97, 18, 193>>
    /\ decoded.outcome = "ok"
    /\ decoded.chars = <<9824, 9828>>

\* the buffer s without its pad bytes and without the strip flag
WithoutPads(s) ==
    LET NoPad(b) == b # 160
        kept == SelectSeq(SubSeq(s.data, 1, s.len), NoPad)
    IN  [s EXCEPT !.data = kept, !.len = Len(kept), !.strip_shifted_space = FALSE]

\* C15: a buffer with the strip flag decodes as if its 0xA0 bytes were not
\* there (same characters, same final conversion state); in a buffer without
\* the flag every 0xA0 yields a character: the one the tables give it, or
\* the character 0xA0 itself without table set or table entry.  The second
\* half is stated for no table set and for the table set the caller
\* supplies, whose gaps are certain.
C15_PadStrippedOrDecoded ==
    (ps.outcome = "ok" /\ decoded.outcome = "ok") =>
        IF ps.strip_shifted_space
            THEN decoded = StringFrom(WithoutPads(ps))
            ELSE ps.character_map # "embedded" =>
                 LET pads == {i \in 1..ps.len : ps.data[i] = 160}
                     out == IF ps.character_map = "None"
                                THEN PrintingAt(ps)
                                ELSE MappedAt(ps) \cup pads
                 IN  /\ Len(decoded.chars) = Cardinality(out)
                     /\ \A i \in pads :
                            decoded.chars[Cardinality({j \in out : j <= i})] =
                                IF ps.character_map = "None" \/ Unmapped(ps, i)
                                    THEN 160
                                    ELSE GlyphAt(ps, i)

\* the (set, code) pair the PETSCII-to-screen table of the shift state holds
\* for the mapped byte at i
ScreenEntryAt(s, i) ==
    LET map == character_set_map(s.character_map)
        table == IF ShiftedAt(s, i)
                     THEN map.c64_petscii_shifted_codes_to_screen_codes
                     ELSE map.c64_petscii_unshifted_codes_to_screen_codes
    IN  table[to_string(DuplicateOf(s.data[i]))].v

\* mapped positions whose entry has a screen code above 127 or a screen set
\* other than 1, 2, 3
CorruptAt(s) ==
    {i \in MappedAt(s) : ScreenEntryAt(s, i)[2] > 127 \/ ScreenEntryAt(s, i)[1] \notin {1, 2, 3}}

InvalidEntry ==
    { "Should not have a screen code greater than 127 before applying reverse video transform",
      "Invalid screen code set" }

\* C16: decoding a buffer in which a byte selects an entry with a screen code
\* above 127 or a screen set other than 1, 2, 3 panics and yields no string
C16_CorruptEntryAborts ==
    (DecodedWithMap /\ ps.len <= Len(ps.data) /\ CorruptAt(ps) # {}) =>
        /\ decoded.outcome = "panic"
        /\ decoded.msg \in InvalidEntry
        /\ decoded.chars = <<>>

\* a buffer with the caller's tables in which 'A' is followed by 0x0E and
\* 0xFF, which selects the entry with screen code 200, was decoded: a panic
C16_Witness ==
    /\ DecodedWithMap
    /\ ps.character_map = "caller"
    /\ ps.len = 3
    /\ ps.data = <<65, 14, 255>>
    /\ decoded.outcome = "panic"
    /\ decoded.msg \in InvalidEntry

\* every entry of the two PETSCII-to-screen tables of a table set is a pair
\* with a screen set 1, 2 or 3 and a screen code of at most 127
WellFormed(cm) ==
    \A table \in { character_set_map(cm).c64_petscii_unshifted_codes_to_screen_codes,
                   character_set_map(cm).c64_petscii_shifted_codes_to_screen_codes } :
        \A key \in DOMAIN table :
            /\ table[key].kind = "Array"
            /\ table[key].v[1] \in {1, 2, 3}
            /\ table[key].v[2] <= 127

\* C17: String::from on a buffer a constructor returned, without table set
\* or with one whose entries are well formed, returns a string
C17_DecodingTotal ==
    (/\ ps.outcome = "ok"
     /\ decoded.outcome # "none"
     /\ (ps.character_map = "None" \/ WellFormed(ps.character_map))) =>
        decoded.outcome = "ok"

\* the table set the encoder read in the last text constructor call: what
\* load() left in CONFIG, which is not written while the buffer is held
Used == character_set_map(CONFIG)

\* the Unicode-to-screen entry of c is a pair with screen set 1, 2 or 3
ScreenPair(c) ==
    /\ to_string(c) \in DOMAIN Used.unicode_codes_to_c64_screen_codes
    /\ Used.unicode_codes_to_c64_screen_codes[to_string(c)].kind = "Array"
    /\ Used.unicode_codes_to_c64_screen_codes[to_string(c)].v[1] \in {1, 2, 3}

\* the screen-to-PETSCII table of the screen set of c
PetsciiTable(c) ==
    LET set == Used.unicode_codes_to_c64_screen_codes[to_string(c)].v[1]
    IN  IF set = 1 THEN Used.c64_screen_codes_set_1_to_petscii_codes
        ELSE IF set = 2 THEN Used.c64_screen_codes_set_2_to_petscii_codes
        ELSE Used.c64_screen_codes_set_3_to_petscii_codes

\* c has a screen code and the screen code has a PETSCII code
Encodable(c) ==
    /\ ScreenPair(c)
    /\ to_string(Used.unicode_codes_to_c64_screen_codes[to_string(c)].v[2])
           \in DOMAIN PetsciiTable(c)

PetsciiOf(c) ==
    PetsciiTable(c)[to_string(Used.unicode_codes_to_c64_screen_codes[to_string(c)].v[2])].v[2]

NoShiftCode(b) == b \notin {14, 142}

\* C18: encoding returns bytes whatever characters lack a table entry; apart
\* from the shift codes the bytes are the PETSCII codes of the characters
\* that have a screen code and a PETSCII code, in the order of the text
C18_UnmappableElided ==
    src.op \in TextOps =>
        /\ bytes.outcome = "ok"
        /\ SelectSeq(bytes.bytes, NoShiftCode) =
               [i \in 1..Len(SelectSeq(src.s, Encodable)) |->
                    PetsciiOf(SelectSeq(src.s, Encodable)[i])]

\* with the caller's tables in CONFIG the text "Z", euro sign, "A" was
\* encoded: Z has no PETSCII entry, the euro sign no screen code, A is 0x41
C18_Witness ==
    /\ src.op \in TextOps
    /\ CONFIG = "caller"
    /\ src.s = <<90, 8364, 65>>
    /\ bytes.outcome = "ok"
    /\ bytes.bytes = <<65>>

\* C19: encoding a text with a character whose Unicode-to-screen entry is
\* no pair or has a screen set other than 1, 2, 3 aborts
C19_CorruptionAborts ==
    (/\ src.op \in TextOps
     /\ \E i \in 1..Len(src.s) :
            /\ to_string(src.s[i]) \in DOMAIN Used.unicode_codes_to_c64_screen_codes
            /\ ~ScreenPair(src.s[i])) =>
        bytes.outcome = "panic"

\* C20: the bytes from_str_with_config produces are those of the encoder run
\* on the supplied table set, whatever CONFIG holds
C20_SuppliedTablesOnly ==
    (src.op = "from_str_with_config" /\ bytes.outcome = "ok") =>
        bytes = unicode_to_petscii_bytes(src.s, src.character_map)

\* the buffer fields the closure of the call in progress reads
ConvBuffer == [strip_shifted_space |-> conv.strip, character_map |-> conv.cm]

\* C21: every decode and every encode starts in (unshifted, normal) whatever
\* state the call before it ended in, and what the call does with its first
\* byte or character is what the closures do with it in (unshifted, normal)
C21_CallsStartFresh ==
    /\ conv.kind = "start" => (~conv.shifted /\ conv.attributes = {"Normal"})
    /\ (conv.op = "decode" /\ conv.n = 1) =>
           LET r == filtered(ConvBuffer, conv.c, FALSE, {"Normal"})
           IN  /\ conv.kind = r.kind
               /\ conv.out = IF r.kind = "some" THEN <<r.ch>> ELSE <<>>
               /\ State(conv.shifted, conv.attributes) = State(r.shifted, r.attributes)
    /\ (conv.op = "encode" /\ conv.n = 1 /\ conv.kind = "some") =>
           LET r == shift_codes(encode_char(character_set_map(conv.cm), conv.c), FALSE)
           IN  /\ conv.out = r.codes
               /\ State(conv.shifted, conv.attributes) = State(r.shifted, {"Normal"})

\* after a call that ended shifted and in reversed video, a decode with the
\* embedded tables gave 'A' for the byte 0x41, not 'a'
C21_Witness ==
    /\ conv.op = "decode"
    /\ conv.before = State(TRUE, {"Reversed"})
    /\ conv.cm = "embedded"
    /\ conv.n = 1
    /\ conv.c = 65
    /\ conv.out = <<65>>

\* C22: a thread whose read of CONFIG observed None and that has come out of
\* the write block finds CONFIG holding a table set, and the Config that
\* load() returns to any thread carries the table set CONFIG holds
C22_LoadLeavesConfigSet ==
    \A t \in Threads :
        /\ pc[t] \in {"return", "done"} => CONFIG # "None"
        /\ pc[t] = "done" => ret[t] = CONFIG

\* one thread alone has run load() from CONFIG = None to its return
C22_Witness ==
    \E t \in Threads :
        /\ pc[t] = "done"
        /\ \A u \in Threads \ {t} : pc[u] = "idle"
        /\ writes = 1
        /\ CONFIG = "embedded"
        /\ ret[t] = "embedded"

\* what a call returns when it runs alone with the table set CONFIG holds
Alone(w) ==
    IF w.op = "decode"
        THEN StringFrom(w.buf)
        ELSE unicode_to_petscii_bytes(w.s, load(CONFIG))

\* C23: with CONFIG initialized, every call made in parallel with others
\* returns what the same call returns when it runs alone, and no step of a
\* decode or an encode writes CONFIG
C23_ParallelAsSequential ==
    /\ [](\A t \in Threads :
              (work[t].op # "none" /\ work[t].result.outcome # "none") =>
                  work[t].result = Alone(work[t]))
    /\ [][CONFIG' = CONFIG /\ writes' = writes]_vars

\* with the embedded tables in CONFIG, two threads held the read lock inside
\* load() at once and both have returned from their encode calls, of "aA"
\* and of "Aa"
C23_Witness ==
    /\ CONFIG = "embedded"
    /\ work[1] = Work("encode", NotBuilt, <<97, 65>>, Encoded("ok", <<14, 65, 142, 65>>, ""))
    /\ work[2] = Work("encode", NotBuilt, <<65, 97>>, Encoded("ok", <<65, 14, 65, 142>>, ""))

\* the length value the constructor call stored in the buffer: the len
\* argument of new / new_with_config, the capacity for the byte-slice
\* constructors, the number of encoded bytes for the text constructors
ConstructedLen ==
    IF src.op \in {"new", "new_with_config"} THEN src.len
    ELSE IF src.op \in ByteSliceOps THEN src.cap
    ELSE Len(bytes.bytes)

\* C24: len() returns the length value the buffer was constructed with, for
\* new / new_with_config the len argument whatever the array holds, and
\* is_empty() is true exactly when that value is 0
C24_LenIsConstructedLength ==
    ps.outcome = "ok" =>
        /\ PetsciiString_len(ps) = ConstructedLen
        /\ is_empty(ps) <=> (ConstructedLen = 0)

\* new_with_config was given a length above the capacity and an array that
\* holds a control code: len() is that length, neither the number of bytes
\* stored nor the number of characters a decode would give
C24_Witness ==
    /\ src.op = "new_with_config"
    /\ ps.outcome = "ok"
    /\ src.len = L + 1
    /\ 14 \in Range(ps.data)
    /\ PetsciiString_len(ps) = L + 1
    /\ ~is_empty(ps)

\* a step of the decoder that consumes one byte
DecodeStep == conv'.op = "decode" /\ conv.op = "decode" /\ conv'.n = conv.n + 1

\* C25: a decoder step on 0x0E, 0x8E, 0x12 or 0x92 emits no character, with
\* or without table set and whatever the tables hold under the byte; 0x0E
\* leaves the state shifted and 0x8E unshifted, 0x12 reversed and 0x92
\* normal, whatever it was; a step changes the state only from its own byte
\* on, and only a control byte changes it
C25_ControlCodesSetState ==
    [][DecodeStep =>
           IF conv'.c \in ControlCodes
               THEN /\ conv'.kind = "none"
                    /\ conv'.out = <<>>
                    /\ conv'.shifted = IF conv'.c = 14 THEN TRUE
                                       ELSE IF conv'.c = 142 THEN FALSE
                                       ELSE conv.shifted
                    /\ conv'.attributes = IF conv'.c = 18 THEN {"Reversed"}
                                          ELSE IF conv'.c = 146 THEN {"Normal"}
                                          ELSE conv.attributes
               ELSE State(conv'.shifted, conv'.attributes)
                        = State(conv.shifted, conv.attributes)]_vars

\* a decode with the caller's tables, which have an entry under 14, has
\* consumed 0x0E as its second byte: shifted, and no character
C25_Witness ==
    /\ conv.op = "decode"
    /\ conv.cm = "caller"
    /\ conv.n = 2
    /\ conv.c = 14
    /\ conv.shifted
    /\ conv.kind = "none"
    /\ conv.out = <<>>

\* the PETSCII-to-screen table of the state the call in progress is in
ConvTable ==
    IF conv.shifted
        THEN character_set_map(conv.cm).c64_petscii_shifted_codes_to_screen_codes
        ELSE character_set_map(conv.cm).c64_petscii_unshifted_codes_to_screen_codes

\* the last byte went to the table lookups and hit a (set, code) pair with a
\* set of 1, 2, 3 and a code of at most 127
ConvHit ==
    /\ conv.op = "decode"
    /\ conv.n >= 1
    /\ conv.cm # "None"
    /\ Printing(ConvBuffer, conv.c)
    /\ to_string(DuplicateOf(conv.c)) \in DOMAIN ConvTable
    /\ ConvTable[to_string(DuplicateOf(conv.c))].kind = "Array"
    /\ ConvTable[to_string(DuplicateOf(conv.c))].v[1] \in {1, 2, 3}
    /\ ConvTable[to_string(DuplicateOf(conv.c))].v[2] <= 127

\* the screen-to-Unicode table the hit routes to has no entry under the
\* screen code, plus 128 in reversed video
ConvNoUnicode ==
    LET entry == ConvTable[to_string(DuplicateOf(conv.c))].v
        map == character_set_map(conv.cm)
        unicode == IF entry[1] = 1 THEN map.c64_screen_codes_set_1_to_unicode_codes
                   ELSE IF entry[1] = 2 THEN map.c64_screen_codes_set_2_to_unicode_codes
                   ELSE map.c64_screen_codes_set_3_to_unicode_codes
    IN  to_string(IF "Reversed" \in conv.attributes THEN entry[2] + 128 ELSE entry[2])
            \notin DOMAIN unicode

\* C26: a byte whose PETSCII-to-screen lookup hits and whose screen code has
\* no entry in the routed screen-to-Unicode table is decoded to the
\* character of the normalised code: b - 96, b - 64 or 126 for a byte of the
\* duplicated ranges, without the 128 of reversed video
C26_FallbackIsNormalisedCode ==
    (ConvHit /\ ConvNoUnicode) =>
        /\ conv.kind = "some"
        /\ conv.out = <<DuplicateOf(conv.c)>>

\* in reversed video and with the caller's tables the byte 193 hit screen
\* code 103, which has no Unicode entry under 231: the character 97 came out
C26_Witness ==
    /\ ConvHit
    /\ ConvNoUnicode
    /\ conv.cm = "caller"
    /\ conv.attributes = {"Reversed"}
    /\ conv.c = 193
    /\ conv.out = <<97>>

\* a step of the encoder that consumes one character
EncodeStep == conv'.op = "encode" /\ conv.op = "encode" /\ conv'.n = conv.n + 1

\* the attribute of the PETSCII code of an encodable character has the
\* shifted bit
NeedsShift(c) ==
    PetsciiTable(c)[to_string(Used.unicode_codes_to_c64_screen_codes[to_string(c)].v[2])].v[1]
        % 2 = 1

\* C27: an encoder step on a mapped character emits 0x0E and the character's
\* code when the character is shifted and the state is not, 0x8E and the
\* code when the character is unshifted and the state is shifted, and the
\* code alone otherwise, and leaves the state the character requires; a step
\* on a character without code emits nothing and leaves the state
C27_ShiftCodesOnTransition ==
    [][EncodeStep =>
           IF Encodable(conv'.c)
               THEN /\ conv'.kind = "some"
                    /\ conv'.out =
                           (IF NeedsShift(conv'.c) /\ ~conv.shifted THEN <<14>>
                            ELSE IF ~NeedsShift(conv'.c) /\ conv.shifted THEN <<142>>
                            ELSE <<>>) \o <<PetsciiOf(conv'.c)>>
                    /\ conv'.shifted = NeedsShift(conv'.c)
               ELSE /\ conv'.out = <<>>
                    /\ conv'.shifted = conv.shifted]_vars

\* the second of two lowercase letters in a row was encoded: its code alone,
\* in shifted state
C27_Witness ==
    /\ conv.op = "encode"
    /\ conv.n = 2
    /\ conv.c \in 97..122
    /\ conv.shifted
    /\ conv.kind = "some"
    /\ Len(conv.out) = 1

\* the characters of the text that have a PETSCII code, in order
MappedChars == SelectSeq(src.s, Encodable)

\* characters of m whose shift requirement differs from that of the one
\* before them, the first one from unshifted
ShiftTransitions(m) ==
    {i \in 1..Len(m) : NeedsShift(m[i]) # (i > 1 /\ NeedsShift(m[i - 1]))}

\* for the mapped characters m: their number + shift transitions + 1 if
\* the last of them is shifted
CountOf(m) ==
    Len(m) + Cardinality(ShiftTransitions(m))
        + (IF m # <<>> /\ NeedsShift(m[Len(m)]) THEN 1 ELSE 0)

EncodedCount == CountOf(MappedChars)

\* C28: a text constructor returns a buffer exactly when the number of
\* mapped characters plus shift transitions plus the closing shift out is at
\* most the capacity, the buffer's logical length is then that number, and
\* otherwise the call panics with the oversize message
C28_CapacityOnEncodedCount ==
    src.op \in TextOps =>
        /\ ps.outcome = "ok" <=> EncodedCount <= src.cap
        /\ ps.outcome = "ok" => ps.len = EncodedCount
        /\ ps.outcome # "ok" => (ps.outcome = "panic" /\ ps.msg \in TooLarge)

\* the three characters "aAa" were refused by a constructor whose capacity
\* is above three: they need seven bytes
C28_Witness ==
    /\ src.op \in TextOps
    /\ src.s = <<97, 65, 97>>
    /\ src.cap > Len(src.s)
    /\ EncodedCount = 7
    /\ ps.outcome = "panic"
    /\ ps.msg \in TooLarge

\* C29: in every decoder step 0x0E and 0x8E leave the attributes as they
\* are, 0x12 and 0x92 leave shifted as it is, and any other byte leaves
\* both; the attributes are always exactly {Normal} or exactly {Reversed}
C29_AxesOrthogonal ==
    /\ [](conv.attributes \in {{"Normal"}, {"Reversed"}})
    /\ [][DecodeStep =>
              /\ conv'.c \in {14, 142} => conv'.attributes = conv.attributes
              /\ conv'.c \in {18, 146} => conv'.shifted = conv.shifted
              /\ conv'.c \notin ControlCodes =>
                     (conv'.attributes = conv.attributes /\ conv'.shifted = conv.shifted)]_vars

\* a decode in shifted state and reversed video has consumed 0x0E as its
\* third byte: still reversed
C29_Witness ==
    /\ conv.op = "decode"
    /\ conv.n = 3
    /\ conv.c = 14
    /\ conv.shifted
    /\ conv.attributes = {"Reversed"}

\* the characters the first k bytes of the buffer decode to
PrefixChars(s, k) == StringFrom([s EXCEPT !.len = k]).chars

\* b is a, or a with one character appended; it is a when no character may
\* be added
AtMostOneMore(a, b, printing) ==
    \/ b = a
    \/ /\ printing
       /\ Len(b) = Len(a) + 1
       /\ SubSeq(b, 1, Len(a)) = a

\* C30: the characters of a decoded buffer are those of its first len - 1
\* bytes followed by at most one character for the last byte, and so back
\* to the empty buffer; a control byte or a stripped pad adds none, so the
\* output is no longer than len minus the number of such bytes
C30_OrderedAndNoLonger ==
    (ps.outcome = "ok" /\ decoded.outcome = "ok") =>
        /\ PrefixChars(ps, 0) = <<>>
        /\ PrefixChars(ps, ps.len) = decoded.chars
        /\ \A k \in 1..ps.len :
               AtMostOneMore(PrefixChars(ps, k - 1), PrefixChars(ps, k),
                             Printing(ps, ps.data[k]))
        /\ Len(decoded.chars) <= ps.len - Cardinality((1..ps.len) \ PrintingAt(ps))

\* a buffer with the strip flag holding 'A', the pad 0xA0 and 'B' has been
\* decoded to "AB"
C30_Witness ==
    /\ ps.outcome = "ok"
    /\ ps.strip_shifted_space
    /\ SubSeq(ps.data, 1, 3) = <<65, 160, 66>>
    /\ decoded.outcome = "ok"
    /\ decoded.chars = <<65, 66>>

(***************************************************************************)
(* C31: every load() call that has passed the crate-root load reaches its  *)
(* return, whatever the other threads do, and no thread ever holds the     *)
(* read lock and the write lock of CONFIG together: a thread that asks for *)
(* the write lock has released its read lock.                              *)
(***************************************************************************)
HoldsBoth(t) == t \in readers /\ writer = t

C31_LoadTerminates ==
    /\ [](\A t \in Threads :
            /\ ~HoldsBoth(t)
            /\ pc[t] \in {"write", "assign"} => t \notin readers)
    /\ \A t \in Threads : (pc[t] = "read") ~> (pc[t] = "done")

\* C31 witness: a thread has returned from load() after taking the write
\* path while the other threads were inside load() too
C31_Witness ==
    /\ pc[1] = "done"
    /\ writes >= 1
    /\ \A t \in Threads \ {1} : pc[t] \in {"write", "assign", "return", "done"}

(***************************************************************************)
(* C34: when the crate-root configuration fails to load, load() returns    *)
(* the error as a value: the step takes no lock of CONFIG, leaves CONFIG   *)
(* as it was, and the thread holds no lock afterwards.                     *)
(***************************************************************************)
CrateLoadFails(t) == pc[t] # "failed" /\ pc'[t] = "failed"

C34_CrateErrorReturned ==
    [][\A t \in Threads :
          CrateLoadFails(t) =>
              /\ pc[t] = "idle"
              /\ ret'[t] = "Err"
              /\ t \notin readers' /\ writer' # t
              /\ UNCHANGED <<CONFIG, readers, writer, writes>>]_vars

\* C34 witness: a load() returned the error while another thread held the
\* write lock and CONFIG was still None
C34_Witness ==
    \E t, u \in Threads :
        /\ pc[t] = "failed" /\ ret[t] = "Err"
        /\ writer = u /\ u # t
        /\ CONFIG = "None"

(***************************************************************************)
(* C32: a load() that finds CONFIG Some at its test returns from that step *)
(* with the cached table set, not a parsed one, and the step leaves        *)
(* CONFIG, the write lock and the count of writes as they were.            *)
(***************************************************************************)
TestsSome(t) == pc[t] = "test" /\ pc'[t] # "test" /\ CONFIG # "None"

C32_LoadedPathReadsOnly ==
    [][\A t \in Threads :
          TestsSome(t) =>
              /\ pc'[t] = "done"
              /\ ret'[t] = CONFIG
              /\ t \notin readers'
              /\ UNCHANGED <<CONFIG, writer, writes>>]_vars

\* C32 witness: a load() returned the caller's table set that CONFIG held,
\* which differs from the embedded one, and nothing was written
C32_Witness ==
    \E t \in Loaders :
        /\ pc[t] = "done"
        /\ ret[t] = "caller"
        /\ CONFIG = "caller"
        /\ writes = 0

(***************************************************************************)
(* C33: while load(), load_from_file(), decode and encode calls interleave *)
(* CONFIG never goes from Some to None, and a step of load_from_file or of *)
(* a decode leaves CONFIG and its lock as they were.                       *)
(***************************************************************************)
FromFileStep == \E t \in Threads : pc[t] # "from_file" /\ pc'[t] = "from_file"

DecodeCallStep == \E t \in Threads : work[t].op = "none" /\ work'[t].op = "decode"

C33_ConfigMonotonic ==
    [][/\ CONFIG # "None" => CONFIG' # "None"
       /\ FromFileStep \/ DecodeCallStep =>
              UNCHANGED <<CONFIG, writes, readers, writer>>]_vars

\* C33 witness: load_from_file returned a table set other than the one
\* load() stored, a decode and an encode were made, and CONFIG holds what
\* load() stored
C33_Witness ==
    /\ \E t \in Loaders : pc[t] = "from_file" /\ ret[t] = "caller"
    /\ work[Decoder].op = "decode"
    /\ work[Encoder].result.outcome # "none"
    /\ CONFIG = "embedded"
    /\ writes >= 1

(***************************************************************************)
(* C35: the bytes the encoder gives for a text are the bytes it gives for  *)
(* the text without its characters that have no PETSCII code in the table  *)
(* set in use: such a character changes no shift state and adds no byte.   *)
(***************************************************************************)
TextEncoded == src.op \in TextOps /\ bytes.outcome # "none"

C35_UnmappableHasNoEffect ==
    TextEncoded => bytes = unicode_to_petscii_bytes(MappedChars, CONFIG)

\* C35 witness: a character without code stands between two shifted ones,
\* and the output holds one shift in, the two codes and one shift out
C35_Witness ==
    /\ TextEncoded
    /\ Len(src.s) = 3
    /\ Encodable(src.s[1]) /\ NeedsShift(src.s[1])
    /\ ~Encodable(src.s[2])
    /\ Encodable(src.s[3]) /\ NeedsShift(src.s[3])
    /\ bytes.bytes = <<14, PetsciiOf(src.s[1]), PetsciiOf(src.s[3]), 142>>

(***************************************************************************)
(* C36: in the encoder's output the bytes 0x0E and 0x8E alternate, the     *)
(* first of them is 0x0E and there are as many 0x8E as 0x0E; a text with   *)
(* no character that has a code gives no byte and a buffer of length 0.    *)
(***************************************************************************)
IsShiftCode(b) == b \in {14, 142}

Alternating(ctl) ==
    /\ \A i \in 1..Len(ctl) : ctl[i] = IF i % 2 = 1 THEN 14 ELSE 142
    /\ Len(ctl) % 2 = 0

C36_ShiftCodesAlternate ==
    src.op \in TextOps /\ bytes.outcome = "ok" =>
        /\ Alternating(SelectSeq(bytes.bytes, IsShiftCode))
        /\ MappedChars = <<>> =>
               /\ bytes.bytes = <<>>
               /\ ps.outcome = "ok"
               /\ ps.len = 0

\* C36 witness: the text goes into the shifted set twice, and the output
\* holds 0x0E, 0x8E, 0x0E, 0x8E around its three codes
C36_Witness ==
    /\ src.op \in TextOps /\ bytes.outcome = "ok"
    /\ Len(bytes.bytes) = 7
    /\ SelectSeq(bytes.bytes, IsShiftCode) = <<14, 142, 14, 142>>

(***************************************************************************)
(* C37: a buffer built by From<&str> has no character map, and decoding it *)
(* gives, in order, one character of the byte's value for each byte of the *)
(* encoder's output that is not a control code, which need not be the      *)
(* text; of the two text constructors only from_str_with_config stores a   *)
(* table set for the decoder.                                              *)
(***************************************************************************)
NoControlCode(b) == b \notin ControlCodes

C37_FromStrDecodesIdentity ==
    /\ src.op \in TextOps /\ ps.outcome = "ok" =>
           /\ ps.character_map # "None" <=> src.op = "from_str_with_config"
           /\ src.op = "from_str_with_config" => ps.character_map = src.character_map
    /\ src.op = "from_str" /\ decoded.outcome # "none" =>
           /\ decoded.outcome = "ok"
           /\ decoded.chars = SelectSeq(bytes.bytes, NoControlCode)

\* C37 witness: a text of lower-case letters built by From<&str> decodes to
\* the letters' PETSCII codes, not to the text
C37_Witness ==
    /\ src.op = "from_str"
    /\ src.s = <<97, 97, 97>>
    /\ bytes.bytes = <<14, 65, 65, 65, 142>>
    /\ decoded.outcome = "ok"
    /\ decoded.chars = <<65, 65, 65>>

====
